---- MODULE Spec2Model ----
(***************************************************************************)
(* A model of the DzenHelper bot: the session aggregator of                *)
(* src/src/handlers/youtube.ts (transcriptionSessions and its handlers)    *)
(* and the strategy runner of src/src/services/downloader.ts.              *)
(*                                                                         *)
(* Node runs one handler at a time; a handler gives up control only at an  *)
(* await.  Each action below is one run of code between two awaits.        *)
(*                                                                         *)
(* Time.  The code reads the clock in one comparison only,                 *)
(* Date.now() - session.lastUpdate > MAX_SESSION_LIFETIME, and arms timers *)
(* of a fixed delay.  The model therefore keeps, instead of Date.now() and *)
(* the time stamps, the differences the code can observe: for a session    *)
(* `idle` = Date.now() - session.lastUpdate, for a timer `left` = the time *)
(* until it is due.  Advance(d) lets d ms pass.                            *)
(*                                                                         *)
(* Objects.  A TranscriptionSession object is identified by the number of  *)
(* its creation.  `heap` holds the objects something still refers to (the  *)
(* Map, a pending timer, a suspended handler); an object nothing refers to *)
(* is garbage and is dropped.                                              *)
(***************************************************************************)
EXTENDS Integers, Sequences, FiniteSets, TLC

\* ------------------------------------------------------------------ bounds
\* chats that send updates
NumKeys == 1
\* text updates accepted in one behaviour
MaxFrags == 3
\* clock steps in one behaviour
MaxTicks == 2

\* the increments the text-generation backend emits during one call
MaxChunks == 3

\* the calls of Transcriber.transcribe in one process lifetime
NumCalls == 3
\* the samples of an audio buffer
MaxSamples == 3

\* the largest sample value, in steps of the sample grid
MaxLevel == 9

\* the rows the table post may get
NumPosts == 2

\* the invocations of the scheduled publisher
NumInvocations == 2

\* clock steps in one behaviour of two chats
PairTicks == 1
\* how many text updates arrive in the behaviours checked for liveness
FairFrags == 2

Keys == 1..NumKeys
\* undefined (a missing Map entry, an unset optional field)
None == 0
\* the text of the n-th text update (the handlers never look into a text)
UpdateText(n) == <<"A", "B", "C", "D", "E", "F">>[n]

\* ------------------------------------------------- constants of the source
AUTO_FINISH_TIMEOUT == 5 * 1000
MAX_SESSION_LIFETIME == 5 * 60 * 1000
\* the amounts of time (ms) that may pass in one clock step
TimeSteps == {AUTO_FINISH_TIMEOUT, MAX_SESSION_LIFETIME}

VARIABLES
  ticks,                 \* how often the clock has advanced
  arrivals,              \* the chats of the text updates accepted so far; the n-th has id n
  created,               \* session objects created so far; object n has identity n
  heap,                  \* identity -> TranscriptionSession object, for the objects referred to
  transcriptionSessions, \* the Map: chatId -> session object (None: no entry)
  timers,                \* the pending setTimeout callbacks of scheduleAutoFinish
  handlers,              \* handleTranscriptionMessage calls suspended at an await
  finalizing,            \* finalizations suspended at the await of the status edit
  generated,             \* the calls of processTranscription so far, in call order
  age,                   \* history: identity -> time since the object was created
  discarded,             \* history: fragments dropped without generation, and why
  noticeSent             \* history: the chats told "no collected messages" by a finish

sessVars == <<ticks, arrivals, created, heap, transcriptionSessions, timers,
              handlers, finalizing, generated, age, discarded, noticeSent>>

\* The strategy runner: one call of VideoDownloader.downloadAudio or
\* VideoDownloader.getVideoInfo.
VARIABLES
  urlValid,              \* input: isValidYouTubeUrl(url)
  hasCookiesFile,        \* input: cookies.txt exists in the working directory
  tempDir,               \* the directory of audioPath exists
  acq,                   \* the call: which method, where it stands, i, lastError, what
                         \* the last command did (history), the messages of the
                         \* failures so far (history), what the call ended with
  files,                 \* the files of the temp directory whose names start with
                         \* baseName: name -> the strategy that wrote it (None: no file)
  attempted,             \* history: the strategies whose command was started, in order
  running,               \* the strategies whose command is running
  waits                  \* history: the delays waited, in order

acqVars == <<urlValid, hasCookiesFile, tempDir, acq, files, attempted, running, waits>>

\* The text generation: one call of ArticleGenerator.generateArticleStreaming.
VARIABLES
  apiUrl,                \* input: this.apiUrl, the configured endpoint
  gen,                   \* the call: where it stands, attempt, lastError, whether
                         \* ollama.list() answered (history), the delay being
                         \* waited, how many increments had been read when the
                         \* attempt started (history), what the call ended with
  calls,                 \* history: the attempts for which ollama.generate was called
  emitted,               \* history: the increments read from the backend's streams
  fullArticle,           \* the local fullArticle, a sequence of characters
  sink,                  \* history: the arguments of the calls of onChunk, in order
  retryWaits,            \* history: the delays waited before a retry, in order
  errors                 \* history: the errors the catch block met, in order

genVars == <<apiUrl, gen, calls, emitted, fullArticle, sink, retryWaits, errors>>

\* The video pipeline: one run of handleYouTubeUrl.
VARIABLES
  run,                   \* the run: where it stands, the stage being awaited,
                         \* statusMessage set or not, the error that leaves
                         \* the catch block, what the run ended with
  tempFiles,             \* the local tempFiles, the artifacts registered
  disk,                  \* the artifacts that exist in TEMP_DIR
  removal,               \* per artifact, where its cleanupFile call stands
  started                \* history: the stages awaited, in order

runVars == <<run, tempFiles, disk, removal, started>>

\* The chat-aggregation pipeline: one run of processTranscription.
VARIABLES
  chat,                  \* the run: where it stands, the stage being awaited,
                         \* statusMessageId set or not, imagePath set or not,
                         \* the error caught, what was reported, how it ended
  chatDisk,              \* the artifacts of the run that exist in TEMP_DIR
  chatStarted            \* history: the stages awaited, in order

chatVars == <<chat, chatDisk, chatStarted>>

\* The image generation: one call of ImageGenerator.generateImage.
VARIABLES
  provider,              \* input: this.provider, from IMAGE_PROVIDER
  token,                 \* input: this.token is set (HUGGINGFACE_API_TOKEN)
  img,                   \* the call: where it stands, the requests sent
                         \* (history), the error of each attempt (history),
                         \* what the call ended with
  imgFiles               \* the attempts whose image file was written

imgVars == <<provider, token, img, imgFiles>>

\* The transcription model: the static Transcriber and its callers.
VARIABLES
  transcriber,           \* Transcriber.transcriber: None (null) or the instance
  pipelines,             \* history: the calls of pipeline(), each making an
                         \* instance of the model
  callers                \* per call of Transcriber.transcribe: where it
                         \* stands, the instance it makes, the instance it uses

trVars == <<transcriber, pipelines, callers>>

\* The post table and the scheduled publisher (the autopost function).
VARIABLES
  postTable,             \* the table post: per id, its status ("none": no such
                         \* row) and whether its publish_at has passed
  autopost,              \* per invocation of the function: where it stands, the
                         \* posts selected, the one being published, the two
                         \* counters, the response
  delivered,             \* history: per post, the messages the channel received
  writes                 \* history: the status values sent to the table, and by
                         \* which operation

postVars == <<postTable, autopost, delivered, writes>>

\* The audio buffer of Transcriber.loadAudioFile.
VARIABLES
  samples,               \* input: the buffer as converted from the WAV file
  audioData,             \* the buffer, normalized in place
  passes                 \* how often the normalization has run over audioData

audioVars == <<samples, audioData, passes>>

vars == <<sessVars, acqVars, genVars, runVars, chatVars, imgVars, trVars, postVars,
          audioVars>>

\* what an action of one component leaves alone
exceptSess == <<acqVars, genVars, runVars, chatVars, imgVars, trVars, postVars, audioVars>>
exceptAcq == <<sessVars, genVars, runVars, chatVars, imgVars, trVars, postVars, audioVars>>
exceptGen == <<sessVars, acqVars, runVars, chatVars, imgVars, trVars, postVars, audioVars>>
exceptRun == <<sessVars, acqVars, genVars, chatVars, imgVars, trVars, postVars, audioVars>>
exceptChat == <<sessVars, acqVars, genVars, runVars, imgVars, trVars, postVars, audioVars>>
exceptImg == <<sessVars, acqVars, genVars, runVars, chatVars, trVars, postVars, audioVars>>
exceptTr == <<sessVars, acqVars, genVars, runVars, chatVars, imgVars, postVars, audioVars>>
exceptPost == <<sessVars, acqVars, genVars, runVars, chatVars, imgVars, trVars, audioVars>>
exceptAudio == <<sessVars, acqVars, genVars, runVars, chatVars, imgVars, trVars,
                 postVars>>

\* ------------------------------------------------------------- helpers
\* Array.prototype.join of an array of strings
RECURSIVE Join(_, _)
Join(strs, sep) ==
  IF Len(strs) = 0 THEN ""
  ELSE IF Len(strs) = 1 THEN strs[1]
  ELSE strs[1] \o sep \o Join(Tail(strs), sep)

\* the strings held by session.messages (the model tags each with its update id)
MessageTexts(messages) == [i \in 1..Len(messages) |-> messages[i].text]

\* the ids of the updates whose texts session.messages holds
MessageIds(messages) == [i \in 1..Len(messages) |-> messages[i].id]

\* a clearTimeout that cancels nothing (faulty variant)
KeepTimeout(ts, id) == ts

\* clearTimeout(id): the pending callback, if any, never runs
ClearTimeout(ts, id) == {t \in ts : t.id # id}

\* the session objects something refers to
Referenced(tbl, ts, hs, fs) ==
  {tbl[k] : k \in DOMAIN tbl} \cup {t.sid : t \in ts} \cup {h.sid : h \in hs}
    \cup {f.sid : f \in fs}

\* garbage collection: function f without the objects nothing refers to
Collect(f, tbl, ts, hs, fs) ==
  [i \in DOMAIN f \cap Referenced(tbl, ts, hs, fs) |-> f[i]]

\* function f with i mapped to v (i may be new)
Put(f, i, v) == [j \in DOMAIN f \cup {i} |-> IF j = i THEN v ELSE f[j]]

\* an insertion at the front (faulty variant of push)
PushFront(messages, m) == <<m>> \o messages

\* Array.prototype.push
Push(messages, m) == Append(messages, m)

\* Map.prototype.clear in place of delete (faulty variant)
MapClear(tbl, k) == [j \in DOMAIN tbl |-> None]

\* a delete that leaves the entry (faulty variant)
MapKeep(tbl, k) == tbl

\* Map.prototype.delete
MapDelete(tbl, k) == [tbl EXCEPT ![k] = None]

\* Date.now() - session.lastUpdate > MAX_SESSION_LIFETIME
IsExpired(session) == session.idle > MAX_SESSION_LIFETIME

\* a notice that goes to no chat of the bot (faulty variant)
ReplyElsewhere(sent, k) == sent \cup {None}

\* ctx.reply of the "no collected messages" notice to chat k
ReplyNotice(sent, k) == sent \cup {k}

\* session.messages.join('\n\n'): the text a finalization captures.  `frags`
\* (history) are the updates it is made of.
Batch(sid, via, session) ==
  [sid |-> sid, key |-> session.chatId, via |-> via,
   text |-> Join(MessageTexts(session.messages), "\n\n"),
   frags |-> MessageIds(session.messages)]

\* processTranscription(ctx, fullTranscription, statusMessageId): the call
Call(b, statusMessageId) ==
  [sid |-> b.sid, key |-> b.key, via |-> b.via, text |-> b.text,
   frags |-> b.frags, statusMessageId |-> statusMessageId]

\* the fragments of a session dropped without generation
Dropped(sid, session, why) ==
  {[id |-> m, sid |-> sid, key |-> session.chatId, why |-> why] :
     m \in {session.messages[i].id : i \in 1..Len(session.messages)}}

\* --------------------------------------------- helpers of the strategy runner
\* const browsers
browsers == <<"chrome", "edge", "firefox", "brave">>

\* the strategies array built by downloadAudio and by getVideoInfo: what
\* distinguishes the commands (the cookies source, --js-runtimes, the client)
strategies(cookiesFile) ==
  (IF cookiesFile
   THEN <<[cookies |-> "cookies.txt", runtime |-> TRUE, client |-> "web"]>>
   ELSE <<>>)
  \o [b \in 1..Len(browsers) |->
        [cookies |-> browsers[b], runtime |-> TRUE, client |-> "web"]]
  \o [b \in 1..Len(browsers) |->
        [cookies |-> browsers[b], runtime |-> FALSE, client |-> "web"]]
  \o <<[cookies |-> "none", runtime |-> TRUE, client |-> "web"],
       [cookies |-> "none", runtime |-> FALSE, client |-> "android"],
       [cookies |-> "none", runtime |-> FALSE, client |-> "default"]>>

\* Error messages are sequences of words.
\* String.prototype.includes, on words
Includes(message, pattern) ==
  \E i \in 1..(Len(message) - Len(pattern) + 1) :
    SubSeq(message, i, i + Len(pattern) - 1) = pattern

\* lastError: null
NoError == <<>>

\* the message of a command the shell does not find
ShellErrors == {<<"/bin/sh:", "1:", "yt-dlp:", "not", "found">>}

\* the message of a yt-dlp that ran and failed
ToolErrors ==
  {<<"ERROR:", "Sign", "in", "to", "confirm", "you", "are", "not", "a", "bot">>}

\* the messages a failed yt-dlp command may carry
ExecErrors == ShellErrors \cup ToolErrors

\* the message of the SyntaxError of JSON.parse
JsonError == <<"Unexpected", "token", "in", "JSON">>

\* new Error('Audio download failed - file not found')
FileNotFound == <<"Audio", "download", "failed", "-", "file", "not", "found">>

\* new Error('Audio download failed - temp directory not found')
DirNotFound ==
  <<"Audio", "download", "failed", "-", "temp", "directory", "not", "found">>

\* the test on lastError after the loop: the tool is not installed
LooksNotInstalled(message) ==
  \* the Russian cmd.exe wording, transliterated
  \/ Includes(message, <<"ne", "yavlyaetsya", "vnutrennei">>)
  \/ Includes(message, <<"not", "found">>)
  \/ Includes(message, <<"is", "not", "recognized">>)

\* What a yt-dlp audio command may do: exit 0 with its output at audioPath
\* ("exact"), under another extension ("other") or nowhere ("nofile"); fail
\* leaving a partly written file ("partial") or nothing ("error").
AudioOutcomes == {"exact", "other", "nofile", "partial", "error"}

\* What a yt-dlp --dump-json command may do: exit 0 printing JSON ("json") or
\* something else ("garbage"), or fail ("error").
InfoOutcomes == {"json", "garbage", "error"}

\* the names a file of the call can have: audioPath itself, the partly
\* written download, the output under another extension
FileNames == {"exact", "part", "other"}

\* the files after strategy s ran with the given outcome
Written(fs, s, outcome) ==
  IF outcome = "exact" THEN [fs EXCEPT !["exact"] = s]
  ELSE IF outcome = "other" THEN [fs EXCEPT !["other"] = s]
  ELSE IF outcome = "partial" THEN [fs EXCEPT !["part"] = s]
  ELSE fs

\* files.find(f => f.startsWith(baseName)) when audioPath does not exist: the
\* files it may return (readdir promises no order)
Found(fs) == {f \in FileNames : fs[f] # None}

\* what the call ended with
Returned(kind, file, by, message) ==
  [kind |-> kind, file |-> file, by |-> by, message |-> message]

\* -------------------------------------------- helpers of the text generation
\* const maxRetries
maxRetries == 3

\* Errors of the ollama client: a message (words), a code, and what kind of
\* failure it is (history; the code never sees the kind).
HeadersTimeout ==
  [message |-> <<"Headers", "Timeout", "Error">>, code |-> "UND_ERR_HEADERS_TIMEOUT",
   kind |-> "header-timeout"]
BodyTimeout ==
  [message |-> <<"Body", "Timeout", "Error">>, code |-> "UND_ERR_BODY_TIMEOUT",
   kind |-> "timeout"]
FetchFailed ==
  [message |-> <<"fetch", "failed">>, code |-> "none", kind |-> "connection-refused"]
ConnRefused ==
  [message |-> <<"connect", "ECONNREFUSED", "127.0.0.1:11434">>, code |-> "ECONNREFUSED",
   kind |-> "connection-refused"]
ModelMissing ==
  [message |-> <<"model", "llama3", "not", "found">>, code |-> "none",
   kind |-> "model-not-found"]
Unclassified ==
  [message |-> <<"unexpected", "end", "of", "JSON", "input">>, code |-> "none",
   kind |-> "unclassified"]

GenErrors ==
  {HeadersTimeout, BodyTimeout, FetchFailed, ConnRefused, ModelMissing, Unclassified}

\* lastError: null
NoGenError == [message |-> <<>>, code |-> "none", kind |-> "none"]

\* the test of the catch block: a timeout or a connection error
IsRetryable(error) ==
  \/ Includes(error.message, <<"Timeout">>)
  \/ Includes(error.message, <<"fetch", "failed">>)
  \/ error.code = "ECONNREFUSED"
  \/ error.code = "UND_ERR_HEADERS_TIMEOUT"

\* Math.pow(2, n) for a natural n
RECURSIVE Pow2(_)
Pow2(n) == IF n = 0 THEN 1 ELSE 2 * Pow2(n - 1)

\* Math.min
Min(a, b) == IF a <= b THEN a ELSE b

\* a retry delay that does not grow (faulty variant)
RetryDelayFlat(attempt) == Min(1000 * Pow2(0), 10000)

\* const delay = Math.min(1000 * Math.pow(2, attempt - 1), 10000)
RetryDelay(attempt) == Min(1000 * Pow2(attempt - 1), 10000)

\* the error thrown after the loop, chosen by lastError
GenFailure(error, url) ==
  IF Includes(error.message, <<"Timeout">>) \/ error.code = "UND_ERR_HEADERS_TIMEOUT"
  THEN [kind |-> "GenerationTimeout", text |-> <<>>,
        message |-> <<"Ollama", "does", "not", "answer", "within", "the", "timeout">>]
  ELSE IF Includes(error.message, <<"fetch", "failed">>) \/ error.code = "ECONNREFUSED"
  THEN [kind |-> "BackendUnreachable", text |-> <<>>,
        message |-> <<"Cannot", "connect", "to", "Ollama", "at", url>>]
  ELSE IF Includes(error.message, <<"model">>) \/ Includes(error.message, <<"not", "found">>)
  THEN [kind |-> "ModelNotFound", text |-> <<>>, message |-> <<"Model", "not", "found">>]
  ELSE [kind |-> "GenerationFailed", text |-> <<>>,
        message |-> <<"Article", "generation", "failed:">> \o error.message]

\* the error thrown when checkConnection returned false
Unreachable(url) ==
  [kind |-> "BackendUnreachable", text |-> <<>>,
   message |-> <<"Cannot", "connect", "to", "Ollama", "at", url>>]

\* return fullArticle.trim()
Article(text) == [kind |-> "article", text |-> text, message |-> <<>>]

\* a retry test that gives up after the first attempt (faulty variant)
MayRetryOnce(attempt, error) == attempt < 2 /\ IsRetryable(error)

\* a retry test that does not look at the error (faulty variant)
MayRetryAny(attempt, error) == attempt < maxRetries

\* if (attempt < maxRetries && (... a timeout or a connection error ...))
MayRetry(attempt, error) == attempt < maxRetries /\ IsRetryable(error)

\* the increments a stream can carry: chunk.response || '' is a word, a
\* blank, or nothing
Increments == {<<>>, <<"x">>, <<" ">>}

\* String.prototype.trim, blanks being the white space
RECURSIVE TrimStart(_)
TrimStart(text) ==
  IF Len(text) > 0 /\ text[1] = " " THEN TrimStart(Tail(text)) ELSE text

RECURSIVE TrimEnd(_)
TrimEnd(text) ==
  IF Len(text) > 0 /\ text[Len(text)] = " "
  THEN TrimEnd(SubSeq(text, 1, Len(text) - 1)) ELSE text

Trim(text) == TrimEnd(TrimStart(text))

\* an onChunk that is not called (faulty variant)
OnChunkDropped(forwarded, text) == forwarded

\* onChunk(text)
OnChunk(forwarded, text) == Append(forwarded, text)

\* a preflight whose result is ignored (faulty variant)
ConnectedAnyway(ok) == TRUE

\* const isConnected = await this.checkConnection()
IsConnected(ok) == ok

\* -------------------------------------------- helpers of the video pipeline
\* the temporary files a run can register: the downloaded audio, the WAV
\* made from it, the generated image
Artifacts == {"audio", "wav", "image"}

\* the awaited calls of the try block, in the order of the code
Stages ==
  <<"reply", "editDownloading", "getVideoInfo", "downloadAudio", "editConverting",
    "extractAudio", "editTranscribing", "transcribe", "editGenerating",
    "generateArticleStreaming", "editImage", "generateImage", "editSending",
    "replyChunk", "replyChunkPlain", "replyWithPhoto", "deleteMessage", "replyDone">>

\* the stage whose result is pushed to tempFiles, and the artifact pushed
Produces ==
  [stage \in {"downloadAudio", "extractAudio", "generateImage"} |->
     CASE stage = "downloadAudio" -> "audio"
       [] stage = "extractAudio" -> "wav"
       [] stage = "generateImage" -> "image"]

\* an image generation without its try/catch (faulty variant)
SwallowedPhotoOnly == {"replyWithPhoto"}

\* the stages whose own try/catch only logs the failure
Swallowed == {"generateImage", "replyWithPhoto"}

\* the stage awaited after stage i: the plain reply only after a failed
\* reply of the chunk, the photo only if (imagePath)
After(i, failed, registered) ==
  LET j == IF Stages[i] = "replyChunk" /\ ~failed THEN i + 2 ELSE i + 1
  IN IF j <= Len(Stages) /\ Stages[j] = "replyWithPhoto" /\ "image" \notin registered
     THEN j + 1 ELSE j

\* a try block in which every failure is only logged (faulty variant)
ContinuesAlways(stage) == TRUE

\* the failures that do not leave the try block: those of the stages with
\* a try/catch of their own, and the first reply of a chunk
Continues(stage) == stage \in Swallowed \/ stage = "replyChunk"

\* the next awaited call; Transcriber.transcribe is pending from then on
Await(r, j) ==
  [r EXCEPT !.i = j, !.transcribing = @ \/ Stages[j] = "transcribe"]

\* what the model can answer: text, nothing, blanks, text after a blank
RawTexts == {<<"x">>, <<>>, <<" ">>, <<" ", "x">>}

\* a check that lets every transcription pass (faulty variant)
IsBlankNever(transcription) == FALSE

\* if (!transcription || transcription.trim().length === 0)
IsBlank(transcription) == transcription = <<>> \/ Len(Trim(transcription)) = 0

\* a race that goes on waiting for the transcription (faulty variant)
RaceIgnored(r) == [r EXCEPT !.timedOut = TRUE]

\* the timer wins Promise.race: the await rejects with the timeout error
RaceRejects(r) ==
  [r EXCEPT !.pc = "catch", !.thrown = "TranscriptionTimeout", !.timedOut = TRUE]

\* the awaited calls of processTranscription's try block, in the order of
\* the code
ChatStages ==
  <<"safeEditStart", "safeEditGenerating", "generateArticleStreaming", "safeEditImage",
    "generateImage", "safeEditSaving", "saveArticle", "safeEditSending", "replyChunk",
    "replyWithPhoto", "replySaved", "deleteMessage">>

\* the calls of safeEditMessage
SafeEdits == {"safeEditStart", "safeEditGenerating", "safeEditImage", "safeEditSaving",
              "safeEditSending"}

\* the stages of processTranscription whose own try/catch only logs the
\* failure
ChatSwallowed == {"generateImage", "replyChunk", "replyWithPhoto", "deleteMessage"}

\* the stage awaited after stage i: the photo only if (imagePath)
ChatAfter(i, imagePath) ==
  IF i + 1 <= Len(ChatStages) /\ ChatStages[i + 1] = "replyWithPhoto" /\ ~imagePath
  THEN i + 2 ELSE i + 1

\* a cleanupFile without its try/catch (faulty variant)
Rethrown(filePath) == "thrown"

\* cleanupFile's catch: console.error, nothing thrown
Logged(filePath) == "failed"

\* Promise.all: settled when one call rejected or all are fulfilled
Rejected(cleanups, registered) == \E f \in registered : cleanups[f] = "thrown"
Fulfilled(cleanups, registered) == \A f \in registered : cleanups[f] \in {"done", "failed"}

\* ------------------------------------------- helpers of the image generation
\* IMAGE_PROVIDER
Providers == {"huggingface", "ollama"}

\* what a request can end with, as the message of the error thrown; the
\* last two only for Ollama, the statuses 401 and 404 only for Hugging Face
Unauthorized == <<"HF", "request", "failed:", "401", "Unauthorized">>
NotFound == <<"HF", "request", "failed:", "404", "Not", "Found">>
Unavailable == <<"request", "failed:", "503">>
FetchError == <<"fetch", "failed">>
NoPayload == <<"Ollama", "response", "does", "not", "contain", "an", "image", "payload">>
WriteError == <<"ENOSPC:", "no", "space", "left", "on", "device">>

RequestErrors(p) ==
  IF p = "huggingface" THEN {Unauthorized, NotFound, Unavailable, FetchError}
  ELSE {Unavailable, FetchError, NoPayload}

\* no error
NoImgError == <<>>

\* every answer to a request: an image or an error
Answers == {NoImgError, Unauthorized, NotFound, Unavailable, FetchError, NoPayload}

\* the model a request names: this.model for the first attempt and for both
\* attempts with Ollama, the alternative model for the second with
\* Hugging Face
ModelOf(p, attempt) ==
  IF p = "ollama" THEN "stable-diffusion"
  ELSE IF attempt = "primary" THEN "stabilityai/stable-diffusion-2-1"
  ELSE "stabilityai/sdxl-turbo"

\* the request of an attempt: where it goes and whether it carries the token
Request(p, t, attempt) ==
  [attempt |-> attempt, provider |-> p, model |-> ModelOf(p, attempt),
   authorization |-> p = "huggingface" /\ t]

\* a generateImage that never asks for the token (faulty variant)
NeedsTokenNever(p, t) == FALSE

\* if (this.provider === 'huggingface' && !this.token)
NeedsToken(p, t) == p = "huggingface" /\ ~t

\* the error thrown for a missing token
MissingCredential ==
  [kind |-> "MissingCredential", path |-> "none",
   message |-> <<"set", "HUGGINGFACE_API_TOKEN", "or", "IMAGE_PROVIDER=ollama">>]

\* a wrapper that reports the error of the first attempt (faulty variant)
GenerationFailedFirst(r, error) ==
  [kind |-> "GenerationFailed", path |-> "none",
   message |-> <<"Image", "generation", "failed:">> \o r.primaryError]

\* throw new Error(`Image generation failed: ${error.message}. ...`)
GenerationFailed(r, error) ==
  [kind |-> "GenerationFailed", path |-> "none",
   message |-> <<"Image", "generation", "failed:">> \o error]

\* a catch block that gives up (faulty variant)
NoAlternative(r, p, t, error) ==
  [r EXCEPT !.pc = "thrown", !.primaryError = error,
            !.result = GenerationFailed(r, error)]

\* the catch block of generateImage: generateImageAlternative sends the
\* second request
Alternative(r, p, t, error) ==
  [r EXCEPT !.pc = "fallback", !.primaryError = error,
            !.requests = Append(@, Request(p, t, "fallback"))]

\* --------------------------------------- helpers of the post table
PostIds == 1..NumPosts
Invocations == 1..NumInvocations

\* const STATUS_SCHEDULED, STATUS_PUBLISHED of the publisher
STATUS_SCHEDULED == "scheduled"
STATUS_PUBLISHED == "published"

\* status: 'scheduled' in the payload of insertPost
InsertedStatus == "scheduled"

\* the status in the update of markPastPostsAsPublished, a Russian word
\* ("opublikovano", published) written in Cyrillic letters in the source
MarkedStatus == "opublikovano"

\* CHECK (status IN ('scheduled', 'published'))
CheckStatus == {"scheduled", "published"}

\* no row with this id
NoRow == [status |-> "none", due |-> FALSE]

\* an invocation that has not been made
NotInvoked ==
  [pc |-> "idle", posts |-> <<>>, i |-> 0, publishedCount |-> 0,
   failedCount |-> 0, response |-> [status |-> 0, body |-> "none"]]

\* .lte('publish_at', nowIso).eq('status', 'scheduled'): the rows selected
Due(tbl) == {p \in PostIds : tbl[p].status = "scheduled" /\ tbl[p].due}

\* a set of ids as the array the select returns
RECURSIVE Rows(_)
Rows(ids) ==
  IF ids = {} THEN <<>>
  ELSE LET p == CHOOSE q \in ids : \A r \in ids : q <= r
       IN <<p>> \o Rows(ids \ {p})

\* the database executes an update of the status of `rows`: a statement
\* that errs, or whose new value fails the CHECK constraint on a row it
\* touches, changes nothing
Update(tbl, rows, status, ok) ==
  IF ok /\ (rows = {} \/ status \in CheckStatus)
  THEN [p \in PostIds |-> IF p \in rows THEN [tbl[p] EXCEPT !.status = status]
                          ELSE tbl[p]]
  ELSE tbl

\* whether that update returned an error
UpdateError(rows, status, ok) == ~ok \/ (rows # {} /\ status \notin CheckStatus)

\* a publisher that updates the status whatever the send returned (faulty
\* variant)
AfterSendAlways(sent) == "update"

\* if (!sent) return false: what follows the send
AfterSend(sent) == IF sent THEN "update" ELSE "next"

\* the response of the function with its two counters
Counted(r) ==
  [r EXCEPT !.pc = "done",
            !.response = [status |-> 200, body |-> "counts"]]

\* the loop over posts goes on with the next post, or the function answers
NextPost(r) ==
  IF r.i < Len(r.posts) THEN [r EXCEPT !.pc = "send", !.i = @ + 1]
  ELSE Counted(r)

\* ------------------------------------- helpers of the audio buffer
\* The elements of the Float32Array are modelled on a grid of representable
\* values: the integer v stands for the value v / One, so One stands for
\* 1.0, and a quotient is stored rounded to the nearest grid value, as a
\* quotient is rounded to the nearest float when it is stored in the array.
One == 4

\* Math.abs
Abs(x) == IF x < 0 THEN -x ELSE x

\* the value stored for the quotient a / b (b > 0): the nearest grid
\* value, a tie going to the even one
Round(a, b) ==
  LET q == a \div b
      r == a - q * b
  IN IF 2 * r < b THEN q
     ELSE IF 2 * r > b THEN q + 1
     ELSE IF q % 2 = 0 THEN q ELSE q + 1

\* audioData[i] / max, stored in the Float32Array
Divide(x, max) == Round(x * One, max)

\* a maximum taken over the samples themselves, not their absolute values
\* (faulty variant)
RECURSIVE PeakSigned(_, _, _)
PeakSigned(buffer, i, max) ==
  IF i > Len(buffer) THEN max
  ELSE PeakSigned(buffer, i + 1, IF buffer[i] > max THEN buffer[i] ELSE max)

\* the loop over audioData from index i that keeps the largest absolute
\* value in max
RECURSIVE Peak(_, _, _)
Peak(buffer, i, max) ==
  IF i > Len(buffer) THEN max
  ELSE Peak(buffer, i + 1, IF Abs(buffer[i]) > max THEN Abs(buffer[i]) ELSE max)

\* the normalization: if (max > 1.0) every sample is divided by max
Normalize(buffer) ==
  LET max == Peak(buffer, 1, 0)
  IN IF max > One THEN [i \in 1..Len(buffer) |-> Divide(buffer[i], max)]
     ELSE buffer

\* the buffers a WAV file may give: at least one sample (an empty buffer is
\* thrown as an error before the normalization)
Buffers ==
  UNION {[1..n -> (0 - MaxLevel)..MaxLevel] : n \in 1..MaxSamples}

\* ---------------------------------------------------------------- Init
SessInit ==
  /\ ticks = 0
  /\ arrivals = <<>>
  /\ created = 0
  /\ heap = <<>>
  /\ transcriptionSessions = [k \in Keys |-> None]
  /\ timers = {}
  /\ handlers = {}
  /\ finalizing = {}
  /\ generated = <<>>
  /\ age = <<>>
  /\ discarded = {}
  /\ noticeSent = {}

\* no call of the strategy runner
AcqIdle ==
  /\ acq = [op |-> "none", pc |-> "idle", i |-> 0, n |-> 0, lastError |-> NoError,
            outcome |-> "none", failures |-> {},
            result |-> Returned("none", "none", None, NoError)]
  /\ files = [f \in FileNames |-> None]
  /\ attempted = <<>>
  /\ running = {}
  /\ waits = <<>>

\* no call of the text generation
GenIdle ==
  /\ gen = [pc |-> "idle", attempt |-> 0, lastError |-> NoGenError,
            listed |-> FALSE, delay |-> 0, since |-> 0,
            result |-> [kind |-> "none", message |-> <<>>, text |-> <<>>]]
  /\ calls = <<>>
  /\ emitted = <<>>
  /\ fullArticle = <<>>
  /\ sink = <<>>
  /\ retryWaits = <<>>
  /\ errors = <<>>

\* no run of the video pipeline
RunIdle ==
  /\ run = [pc |-> "idle", i |-> 0, statusMessage |-> FALSE, error |-> "none",
            ended |-> "none", thrown |-> "none", reported |-> "none",
            failed |-> {}, transcribing |-> FALSE, timedOut |-> FALSE,
            raw |-> <<>>, transcription |-> <<>>,
            deadline |-> FALSE, atDeadline |-> 0, notice |-> "none"]
  /\ started = <<>>
  /\ tempFiles = <<>>
  /\ disk = [f \in Artifacts |-> FALSE]
  /\ removal = [f \in Artifacts |-> "none"]

\* no run of the chat-aggregation pipeline
ChatIdle ==
  /\ chat = [pc |-> "idle", i |-> 0, statusMessageId |-> FALSE, imagePath |-> FALSE,
             thrown |-> "none", reported |-> "none", failed |-> {},
             ended |-> "none"]
  /\ chatDisk = [f \in {"image"} |-> FALSE]
  /\ chatStarted = <<>>

\* no call of the image generation
ImgIdle ==
  /\ img = [pc |-> "idle", requests |-> <<>>, primaryError |-> NoImgError,
            fallbackError |-> NoImgError,
            result |-> [kind |-> "none", path |-> "none", message |-> <<>>]]
  /\ imgFiles = {}

\* private static transcriber: any = null, and no call yet
TrIdle ==
  /\ transcriber = None
  /\ pipelines = 0
  /\ callers = [c \in 1..NumCalls |-> [pc |-> "idle", makes |-> None, uses |-> None]]

\* an empty table post, no invocation of the publisher
PostIdle ==
  /\ postTable = [p \in PostIds |-> NoRow]
  /\ autopost = [v \in Invocations |-> NotInvoked]
  /\ delivered = [p \in PostIds |-> 0]
  /\ writes = {}

\* no audio file loaded
AudioIdle ==
  /\ samples = <<>>
  /\ audioData = <<>>
  /\ passes = 0

\* process.env.OLLAMA_API_URL || 'http://localhost:11434'
Endpoints == {"http://localhost:11434", "http://ollama:11434"}

Init ==
  /\ SessInit
  /\ urlValid = TRUE /\ hasCookiesFile = FALSE /\ tempDir = TRUE
  /\ AcqIdle
  /\ apiUrl = "http://localhost:11434"
  /\ GenIdle
  /\ RunIdle
  /\ ChatIdle
  /\ provider = "huggingface" /\ token = TRUE
  /\ ImgIdle
  /\ TrIdle
  /\ PostIdle
  /\ AudioIdle

AcqInit ==
  /\ SessInit
  /\ urlValid \in BOOLEAN /\ hasCookiesFile \in BOOLEAN /\ tempDir \in BOOLEAN
  /\ AcqIdle
  /\ apiUrl = "http://localhost:11434"
  /\ GenIdle
  /\ RunIdle
  /\ ChatIdle
  /\ provider = "huggingface" /\ token = TRUE
  /\ ImgIdle
  /\ TrIdle
  /\ PostIdle
  /\ AudioIdle

GenInit ==
  /\ SessInit
  /\ urlValid = TRUE /\ hasCookiesFile = FALSE /\ tempDir = TRUE
  /\ AcqIdle
  /\ apiUrl \in Endpoints
  /\ GenIdle
  /\ RunIdle
  /\ ChatIdle
  /\ provider = "huggingface" /\ token = TRUE
  /\ ImgIdle
  /\ TrIdle
  /\ PostIdle
  /\ AudioIdle

ImgInit ==
  /\ SessInit
  /\ urlValid = TRUE /\ hasCookiesFile = FALSE /\ tempDir = TRUE
  /\ AcqIdle
  /\ apiUrl = "http://localhost:11434"
  /\ GenIdle
  /\ RunIdle
  /\ ChatIdle
  /\ provider \in Providers /\ token \in BOOLEAN
  /\ ImgIdle
  /\ TrIdle
  /\ PostIdle
  /\ AudioIdle

RunInit ==
  /\ SessInit
  /\ urlValid = TRUE /\ hasCookiesFile = FALSE /\ tempDir = TRUE
  /\ AcqIdle
  /\ apiUrl = "http://localhost:11434"
  /\ GenIdle
  /\ RunIdle
  /\ ChatIdle
  /\ provider = "huggingface" /\ token = TRUE
  /\ ImgIdle
  /\ TrIdle
  /\ PostIdle
  /\ AudioIdle

\* ------------------------------------------------------------- actions
\* d ms pass.
Advance(d) ==
  /\ ticks < MaxTicks
  /\ ticks' = ticks + 1
  /\ heap' = [i \in DOMAIN heap |-> [heap[i] EXCEPT !.idle = @ + d]]
  /\ age' = [i \in DOMAIN age |-> age[i] + d]
  /\ timers' = {[t EXCEPT !.left = IF @ > d THEN @ - d ELSE 0] : t \in timers}
  /\ UNCHANGED exceptSess
  /\ UNCHANGED <<arrivals, created, transcriptionSessions, handlers,
                 finalizing, generated, discarded, noticeSent>>

\* a scheduleAutoFinish that leaves the previous timer pending (faulty variant)
scheduleAutoFinishKeep(ts, session, sid, id) ==
  ts \cup {[id |-> id, sid |-> sid, left |-> AUTO_FINISH_TIMEOUT]}

\* scheduleAutoFinish(session) called for update `id`: the session's previous
\* timer is cleared and a new one armed; the timers after it
scheduleAutoFinish(ts, session, sid, id) ==
  (IF session.timeoutId # None THEN ClearTimeout(ts, session.timeoutId) ELSE ts)
    \cup {[id |-> id, sid |-> sid, left |-> AUTO_FINISH_TIMEOUT]}

\* handleTranscriptionMessage up to its first await: a text update for chat k
handleTranscriptionMessage(k) ==
  /\ Len(arrivals) < MaxFrags
  /\ LET id == Len(arrivals) + 1
         old == transcriptionSessions[k]
         stale == old # None /\ IsExpired(heap[old])
         fresh == old = None \/ stale
         sid == IF fresh THEN created + 1 ELSE old
         ts0 == IF stale /\ heap[old].timeoutId # None
                THEN ClearTimeout(timers, heap[old].timeoutId) ELSE timers
         s0 == IF fresh
               THEN [chatId |-> k, messages |-> <<>>, statusMessageId |-> None,
                     idle |-> 0, timeoutId |-> None, ctx |-> id]
               ELSE [heap[old] EXCEPT !.ctx = id]
         s1 == [s0 EXCEPT !.messages = Push(@, [id |-> id, text |-> UpdateText(id)]),
                          !.idle = 0]
         \* scheduleAutoFinish stores the new timer in session.timeoutId
         s2 == [s1 EXCEPT !.timeoutId = id]
     IN /\ arrivals' = Append(arrivals, k)
        /\ created' = IF fresh THEN sid ELSE created
        /\ timers' = scheduleAutoFinish(ts0, s1, sid, id)
        /\ transcriptionSessions' = [transcriptionSessions EXCEPT ![k] = sid]
        /\ handlers' = handlers \cup {[id |-> id, sid |-> sid, pc |-> "confirm"]}
        /\ heap' = Collect(Put(heap, sid, s2), transcriptionSessions', timers',
                           handlers', finalizing)
        /\ age' = Collect(IF fresh THEN Put(age, sid, 0) ELSE age,
                          transcriptionSessions', timers', handlers', finalizing)
        /\ discarded' =
             IF stale
             THEN discarded \cup Dropped(old, heap[old], "expired")
             ELSE discarded
  /\ UNCHANGED exceptSess
  /\ UNCHANGED <<ticks, finalizing, generated, noticeSent>>

\* The inactivity timer t fires: the callback of scheduleAutoFinish up to its
\* first await.  A timer may fire late, never early.
autoFinish(t) ==
  /\ t \in timers
  /\ t.left = 0
  /\ timers' = timers \ {t}
  /\ LET session == heap[t.sid]
         currentSession == transcriptionSessions[session.chatId]
     IN IF currentSession = None \/ currentSession # t.sid
        THEN \* finalized, cancelled or replaced meanwhile
             UNCHANGED <<transcriptionSessions, finalizing, generated>>
        ELSE IF Len(session.messages) = 0
        THEN UNCHANGED <<transcriptionSessions, finalizing, generated>>
        ELSE /\ transcriptionSessions' =
                  MapDelete(transcriptionSessions, session.chatId)
             /\ IF session.statusMessageId # None /\ session.ctx # None
                THEN \* await editMessageText
                     /\ finalizing' = finalizing \cup {Batch(t.sid, "timer", session)}
                     /\ UNCHANGED generated
                ELSE IF session.ctx # None
                THEN \* processTranscription is entered in the same run
                     /\ generated' = Append(generated,
                                       Call(Batch(t.sid, "timer", session), None))
                     /\ UNCHANGED finalizing
                ELSE UNCHANGED <<finalizing, generated>>
  /\ heap' = Collect(heap, transcriptionSessions', timers', handlers, finalizing')
  /\ age' = Collect(age, transcriptionSessions', timers', handlers, finalizing')
  /\ UNCHANGED exceptSess
  /\ UNCHANGED <<ticks, arrivals, created, handlers, discarded, noticeSent>>

\* handleFinishTranscription up to its first await: the explicit trigger for chat k
handleFinishTranscription(k) ==
  LET sid == transcriptionSessions[k] IN
  IF sid = None \/ Len(heap[sid].messages) = 0
  THEN \* ctx.reply of the notice; nothing else
       /\ noticeSent' = ReplyNotice(noticeSent, k)
       /\ UNCHANGED exceptSess
       /\ UNCHANGED <<ticks, arrivals, created, heap, transcriptionSessions, timers,
                      handlers, finalizing, generated, age, discarded>>
  ELSE /\ timers' = IF heap[sid].timeoutId # None
                    THEN ClearTimeout(timers, heap[sid].timeoutId) ELSE timers
       /\ transcriptionSessions' = MapDelete(transcriptionSessions, k)
       /\ IF heap[sid].statusMessageId # None
          THEN \* await editMessageText
               /\ finalizing' = finalizing \cup {Batch(sid, "explicit", heap[sid])}
               /\ UNCHANGED generated
          ELSE \* processTranscription is entered in the same run
               /\ generated' = Append(generated,
                                 Call(Batch(sid, "explicit", heap[sid]), None))
               /\ UNCHANGED finalizing
       /\ heap' = Collect([heap EXCEPT ![sid].timeoutId = None],
                          transcriptionSessions', timers', handlers, finalizing')
       /\ age' = Collect(age, transcriptionSessions', timers', handlers, finalizing')
       /\ UNCHANGED exceptSess
       /\ UNCHANGED <<ticks, arrivals, created, handlers, discarded, noticeSent>>

\* A finalization resumes after the await of its status edit (the edit's
\* failure is swallowed) and calls processTranscription.
startProcessing(b) ==
  /\ b \in finalizing
  /\ finalizing' = finalizing \ {b}
  /\ generated' = Append(generated, Call(b, heap[b.sid].statusMessageId))
  /\ heap' = Collect(heap, transcriptionSessions, timers, handlers, finalizing')
  /\ age' = Collect(age, transcriptionSessions, timers, handlers, finalizing')
  /\ UNCHANGED exceptSess
  /\ UNCHANGED <<ticks, arrivals, created, transcriptionSessions, timers,
                 handlers, discarded, noticeSent>>

\* clearTranscriptionSession(k): the explicit cancel for chat k
clearTranscriptionSession(k) ==
  LET sid == transcriptionSessions[k] IN
  /\ timers' = IF sid # None /\ heap[sid].timeoutId # None
               THEN ClearTimeout(timers, heap[sid].timeoutId) ELSE timers
  /\ transcriptionSessions' = MapDelete(transcriptionSessions, k)
  /\ discarded' =
       IF sid # None
       THEN discarded \cup Dropped(sid, heap[sid], "cancelled")
       ELSE discarded
  /\ heap' = Collect(heap, transcriptionSessions', timers', handlers, finalizing)
  /\ age' = Collect(age, transcriptionSessions', timers', handlers, finalizing)
  /\ UNCHANGED exceptSess
  /\ UNCHANGED <<ticks, arrivals, created, handlers, finalizing, generated,
                 noticeSent>>

\* handleTranscriptionMessage resumes after the await of the confirmation
\* reply: it edits the session's status message or posts a new one.  A reply
\* that throws ends the handler.
confirmationSent(h, ok) ==
  /\ h \in handlers
  /\ h.pc = "confirm"
  /\ handlers' =
       IF ~ok THEN handlers \ {h}
       ELSE (handlers \ {h}) \cup
            {[h EXCEPT !.pc = IF heap[h.sid].statusMessageId # None
                              THEN "edit" ELSE "post"]}
  /\ heap' = Collect(heap, transcriptionSessions, timers, handlers', finalizing)
  /\ age' = Collect(age, transcriptionSessions, timers, handlers', finalizing)
  /\ UNCHANGED exceptSess
  /\ UNCHANGED <<ticks, arrivals, created, transcriptionSessions, timers,
                 finalizing, generated, discarded, noticeSent>>

\* handleTranscriptionMessage resumes after the await of the status edit
\* (failure swallowed) or of the status post; a post that succeeded is stored
\* in session.statusMessageId.  The message posted for update n has id n.
statusSent(h, ok) ==
  /\ h \in handlers
  /\ h.pc \in {"edit", "post"}
  /\ handlers' = handlers \ {h}
  /\ heap' = Collect(IF h.pc = "post" /\ ok
                     THEN [heap EXCEPT ![h.sid].statusMessageId = h.id] ELSE heap,
                     transcriptionSessions, timers, handlers', finalizing)
  /\ age' = Collect(age, transcriptionSessions, timers, handlers', finalizing)
  /\ UNCHANGED exceptSess
  /\ UNCHANGED <<ticks, arrivals, created, transcriptionSessions, timers,
                 finalizing, generated, discarded, noticeSent>>

\* The inactivity window passes while a timer of scheduleAutoFinish is still
\* running: setTimeout's delay runs out whatever else happens, so this step
\* is not counted against the clock steps the model allows itself.
windowElapses ==
  /\ \E t \in timers : t.left > 0
  /\ heap' = [i \in DOMAIN heap |-> [heap[i] EXCEPT !.idle = @ + AUTO_FINISH_TIMEOUT]]
  /\ age' = [i \in DOMAIN age |-> age[i] + AUTO_FINISH_TIMEOUT]
  /\ timers' = {[t EXCEPT !.left = 0] : t \in timers}
  /\ UNCHANGED exceptSess
  /\ UNCHANGED <<ticks, arrivals, created, transcriptionSessions, handlers,
                 finalizing, generated, discarded, noticeSent>>

\* ------------------------------------------- actions of the strategy runner
\* downloadAudio(url) up to the loop over the strategies
downloadAudio ==
  /\ acq.pc = "idle"
  /\ acq' = IF ~urlValid
            THEN [acq EXCEPT !.op = "audio", !.pc = "thrown",
                             !.result = Returned("InvalidUrl", "none", None,
                                                 <<"Invalid", "YouTube", "URL">>)]
            ELSE [acq EXCEPT !.op = "audio", !.pc = "loop", !.i = 0,
                             !.n = Len(strategies(hasCookiesFile))]
  /\ UNCHANGED <<urlValid, hasCookiesFile, tempDir, files, attempted, running, waits>>
  /\ UNCHANGED exceptAcq

\* getVideoInfo(url) up to the loop over the strategies
getVideoInfo ==
  /\ acq.pc = "idle"
  /\ acq' = [acq EXCEPT !.op = "info", !.pc = "loop", !.i = 0,
                        !.n = Len(strategies(hasCookiesFile))]
  /\ UNCHANGED <<urlValid, hasCookiesFile, tempDir, files, attempted, running, waits>>
  /\ UNCHANGED exceptAcq

\* a wait of the same length before every strategy (faulty variant)
delayConstant(i) == 2000 * 1

\* the delay(ms) waited before the strategy of index i
delay(i) == 2000 * i

\* a loop that gives up after the first strategy (faulty variant)
LoopContinuesOnce(i, n) == i < 1

\* the condition of the loop: i < strategies.length
LoopContinues(i, n) == i < n

\* the head of the loop for i > 0: await delay(2000 * i)
awaitDelay ==
  /\ acq.pc = "loop"
  /\ LoopContinues(acq.i, acq.n)
  /\ acq.i > 0
  /\ waits' = Append(waits, delay(acq.i))
  /\ acq' = [acq EXCEPT !.pc = "try"]
  /\ UNCHANGED <<urlValid, hasCookiesFile, tempDir, files, attempted, running>>
  /\ UNCHANGED exceptAcq

\* the command of strategies[i] is started: execAsync(commandStr, ...)
execAsync ==
  /\ \/ acq.pc = "try"
     \/ acq.pc = "loop" /\ acq.i = 0 /\ LoopContinues(acq.i, acq.n)
  /\ attempted' = Append(attempted, acq.i + 1)
  /\ running' = running \cup {acq.i + 1}
  /\ acq' = [acq EXCEPT !.pc = "exec"]
  /\ UNCHANGED <<urlValid, hasCookiesFile, tempDir, files, waits>>
  /\ UNCHANGED exceptAcq

\* the audio command ends with `outcome` (and `message` if it fails): the
\* rest of the try block of downloadAudio, and its catch
audioCommandEnds(outcome, message) ==
  /\ acq.pc = "exec"
  /\ acq.op = "audio"
  /\ outcome = "partial" => message \in ToolErrors
  /\ running' = running \ {acq.i + 1}
  /\ LET s == acq.i + 1
         \* yt-dlp creates the directory of the output it writes
         dir == tempDir \/ outcome \in {"exact", "other", "partial"}
         fs == Written(files, s, outcome)
         caught(e) == acq' = [acq EXCEPT !.lastError = e, !.i = @ + 1, !.pc = "loop",
                                        !.failures = @ \cup {e},
                                        !.outcome = outcome]
         return(f) == acq' = [acq EXCEPT !.pc = "returned", !.outcome = outcome,
                                        !.result = Returned("file", f, fs[f], NoError)]
     IN /\ tempDir' = dir
        /\ files' = fs
        /\ IF outcome \in {"partial", "error"} THEN caught(message)
           ELSE IF fs["exact"] # None THEN return("exact")
           ELSE IF ~dir THEN caught(DirNotFound)
           ELSE IF Found(fs) = {} THEN caught(FileNotFound)
           ELSE \E f \in Found(fs) : return(f)
  /\ UNCHANGED <<urlValid, hasCookiesFile, attempted, waits>>
  /\ UNCHANGED exceptAcq

\* the --dump-json command ends with `outcome` (and `message` if it fails):
\* the rest of the try block of getVideoInfo, and its catch
infoCommandEnds(outcome, message) ==
  /\ acq.pc = "exec"
  /\ acq.op = "info"
  /\ running' = running \ {acq.i + 1}
  /\ acq' = IF outcome = "error"
            THEN [acq EXCEPT !.lastError = message, !.i = @ + 1, !.pc = "loop",
                             !.failures = @ \cup {message},
                             !.outcome = outcome]
            ELSE IF outcome = "garbage"
            THEN [acq EXCEPT !.lastError = JsonError, !.i = @ + 1, !.pc = "loop",
                             !.failures = @ \cup {JsonError},
                             !.outcome = outcome]
            ELSE [acq EXCEPT !.pc = "returned", !.outcome = outcome,
                             !.result = Returned("info", "none", acq.i + 1, NoError)]
  /\ UNCHANGED <<urlValid, hasCookiesFile, tempDir, files, attempted, waits>>
  /\ UNCHANGED exceptAcq

\* after the loop: every strategy failed.  downloadAudio removes audioPath
\* (cleanupFile); the error thrown depends on lastError.
allStrategiesFailed ==
  /\ acq.pc = "loop"
  /\ ~ LoopContinues(acq.i, acq.n)
  /\ files' = IF acq.op = "audio" THEN [files EXCEPT !["exact"] = None] ELSE files
  /\ acq' = [acq EXCEPT
               !.pc = "thrown",
               !.result = IF LooksNotInstalled(acq.lastError)
                          THEN Returned("ToolMissing", "none", None, NoError)
                          ELSE Returned("Exhausted", "none", None, acq.lastError)]
  /\ UNCHANGED <<urlValid, hasCookiesFile, tempDir, attempted, running, waits>>
  /\ UNCHANGED exceptAcq

\* ------------------------------------------------ the text generation
\* generateArticleStreaming is called; it awaits checkConnection.
generateArticleStreaming ==
  /\ gen.pc = "idle"
  /\ gen' = [gen EXCEPT !.pc = "preflight"]
  /\ UNCHANGED <<apiUrl, calls, emitted, fullArticle, sink, retryWaits, errors>>
  /\ UNCHANGED exceptGen

\* checkConnection: ollama.list() answers (ok) or throws (~ok, caught and
\* turned into false). Not connected: the call throws; connected: the loop
\* starts with attempt 1.
checkConnection(ok) ==
  /\ gen.pc = "preflight"
  /\ gen' = IF IsConnected(ok)
            THEN [gen EXCEPT !.pc = "loop", !.attempt = 1, !.listed = ok]
            ELSE [gen EXCEPT !.pc = "thrown", !.listed = ok,
                             !.result = Unreachable(apiUrl)]
  /\ UNCHANGED <<apiUrl, calls, emitted, fullArticle, sink, retryWaits, errors>>
  /\ UNCHANGED exceptGen

\* The head of the for loop: attempt <= maxRetries, then ollama.generate is
\* called with stream: true; otherwise the loop is over and the error after
\* it is thrown.
generate ==
  /\ gen.pc = "loop"
  /\ IF gen.attempt <= maxRetries
     THEN /\ calls' = Append(calls, gen.attempt)
          /\ gen' = [gen EXCEPT !.pc = "stream", !.since = Len(emitted)]
     ELSE /\ calls' = calls
          /\ gen' = [gen EXCEPT !.pc = "thrown",
                                !.result = GenFailure(gen.lastError, apiUrl)]
  /\ UNCHANGED <<apiUrl, emitted, fullArticle, sink, retryWaits, errors>>
  /\ UNCHANGED exceptGen

\* One turn of for await: the stream yields a chunk; its text is added to
\* fullArticle and handed to onChunk.
chunkArrives(text) ==
  /\ gen.pc = "stream"
  /\ Len(emitted) < MaxChunks
  /\ emitted' = Append(emitted, text)
  /\ fullArticle' = fullArticle \o text
  /\ sink' = OnChunk(sink, text)
  /\ UNCHANGED <<apiUrl, gen, calls, retryWaits, errors>>
  /\ UNCHANGED exceptGen

\* The stream is done: return fullArticle.trim().
streamEnds ==
  /\ gen.pc = "stream"
  /\ gen' = [gen EXCEPT !.pc = "returned", !.result = Article(Trim(fullArticle))]
  /\ UNCHANGED <<apiUrl, calls, emitted, fullArticle, sink, retryWaits, errors>>
  /\ UNCHANGED exceptGen

\* ollama.generate rejects or the stream throws: the catch block. A
\* retryable error before the last attempt starts the delay; any other
\* breaks out of the loop, and the error after the loop is thrown.
generateFails(error) ==
  /\ gen.pc = "stream"
  /\ errors' = Append(errors, error)
  /\ gen' = IF MayRetry(gen.attempt, error)
            THEN [gen EXCEPT !.pc = "delay", !.lastError = error,
                             !.delay = RetryDelay(gen.attempt)]
            ELSE [gen EXCEPT !.pc = "thrown", !.lastError = error,
                             !.result = GenFailure(error, apiUrl)]
  /\ UNCHANGED <<apiUrl, calls, emitted, fullArticle, sink, retryWaits>>
  /\ UNCHANGED exceptGen

\* await new Promise(resolve => setTimeout(resolve, delay)); continue
retryDelayElapsed ==
  /\ gen.pc = "delay"
  /\ retryWaits' = Append(retryWaits, gen.delay)
  /\ gen' = [gen EXCEPT !.pc = "loop", !.attempt = @ + 1, !.delay = 0]
  /\ UNCHANGED <<apiUrl, calls, emitted, fullArticle, sink, errors>>
  /\ UNCHANGED exceptGen

GenNext ==
  \/ generateArticleStreaming
  \/ \E ok \in BOOLEAN : checkConnection(ok)
  \/ generate
  \/ \E text \in Increments : chunkArrives(text)
  \/ streamEnds
  \/ \E error \in GenErrors : generateFails(error)
  \/ retryDelayElapsed

\* ------------------------------------------------ the video pipeline
\* handleYouTubeUrl is called: without a chat id it returns at once,
\* otherwise it enters the try block and awaits the first reply.
handleYouTubeUrl(hasChat) ==
  /\ run.pc = "idle"
  /\ run' = IF hasChat THEN Await([run EXCEPT !.pc = "try"], 1)
            ELSE [run EXCEPT !.pc = "ended", !.ended = "returned"]
  /\ started' = IF hasChat THEN <<1>> ELSE <<>>
  /\ UNCHANGED <<tempFiles, disk, removal>>
  /\ UNCHANGED exceptRun

\* The awaited call of the try block resolves. The first reply sets
\* statusMessage; a file made by the download, the conversion or the image
\* generation is pushed to tempFiles; Transcriber.transcribe returns its text
\* trimmed, and an empty transcription is thrown as an error; after the last
\* call the finally block follows.
stageResolves(raw) ==
  /\ run.pc = "try"
  /\ raw # <<"x">> => Stages[run.i] = "transcribe"
  /\ LET stage == Stages[run.i]
         made == IF stage \in DOMAIN Produces THEN {Produces[stage]} ELSE {}
         registered == {tempFiles[k] : k \in 1..Len(tempFiles)} \cup made
         j == After(run.i, FALSE, registered)
         r == IF stage = "transcribe"
              THEN [run EXCEPT !.transcribing = FALSE, !.raw = raw,
                               !.transcription = Trim(raw)]
              ELSE [run EXCEPT !.statusMessage = @ \/ stage = "reply"]
     IN /\ disk' = [f \in Artifacts |-> disk[f] \/ f \in made]
        /\ tempFiles' = IF made = {} THEN tempFiles
                        ELSE Append(tempFiles, Produces[stage])
        /\ IF stage = "transcribe" /\ IsBlank(r.transcription)
           THEN /\ run' = [r EXCEPT !.pc = "catch", !.thrown = "EmptyTranscription"]
                /\ started' = started
           ELSE IF j > Len(Stages)
           THEN /\ run' = [r EXCEPT !.pc = "finally"]
                /\ started' = started
           ELSE /\ run' = Await(r, j)
                /\ started' = Append(started, j)
  /\ UNCHANGED removal
  /\ UNCHANGED exceptRun

\* The awaited call of the try block rejects. The image generation and the
\* photo only log it; a failed reply of the chunk is tried again as plain
\* text; any other failure enters the catch block.
stageRejects ==
  /\ run.pc = "try"
  /\ LET stage == Stages[run.i]
         registered == {tempFiles[k] : k \in 1..Len(tempFiles)}
         j == After(run.i, TRUE, registered)
         r == [run EXCEPT !.transcribing = @ /\ stage # "transcribe",
                          !.failed = @ \cup {stage}]
     IN IF Continues(stage)
        THEN IF j > Len(Stages)
             THEN /\ run' = [r EXCEPT !.pc = "finally"]
                  /\ started' = started
             ELSE /\ run' = Await(r, j)
                  /\ started' = Append(started, j)
        ELSE /\ run' = [r EXCEPT !.pc = "catch", !.thrown = stage]
             /\ started' = started
  /\ UNCHANGED <<tempFiles, disk, removal>>
  /\ UNCHANGED exceptRun

\* The 30 minute timer of Promise.race fires while Transcriber.transcribe is
\* pending: the race rejects, the catch block is entered, the transcription
\* goes on unattended.
transcriptionTimeout ==
  /\ run.pc = "try"
  /\ Stages[run.i] = "transcribe"
  /\ run' = RaceRejects(run)
  /\ UNCHANGED <<started, tempFiles, disk, removal>>
  /\ UNCHANGED exceptRun

\* The unattended transcription settles after the race was lost: nobody
\* reads its result.
transcribeSettles ==
  /\ run.timedOut
  /\ run.transcribing
  /\ run' = [run EXCEPT !.transcribing = FALSE]
  /\ UNCHANGED <<started, tempFiles, disk, removal>>
  /\ UNCHANGED exceptRun

\* The catch block reports the error, editing the status message if there
\* is one, replying otherwise; the report itself may reject, and that error
\* leaves the catch block.
reportError(sent) ==
  /\ run.pc = "catch"
  /\ run' = [run EXCEPT !.pc = "finally",
                        !.reported = IF sent THEN run.thrown ELSE "none",
                        !.error = IF sent THEN "none" ELSE "report"]
  /\ UNCHANGED <<started, tempFiles, disk, removal>>
  /\ UNCHANGED exceptRun

\* finally: cleanupFiles(tempFiles) maps cleanupFile over the paths; each
\* call runs up to its await of fs.pathExists.
cleanupFiles ==
  /\ run.pc = "finally"
  /\ run' = [run EXCEPT !.pc = "cleanup"]
  /\ removal' = [f \in Artifacts |->
                   IF \E k \in 1..Len(tempFiles) : tempFiles[k] = f
                   THEN "checking" ELSE removal[f]]
  /\ UNCHANGED <<started, tempFiles, disk>>
  /\ UNCHANGED exceptRun

\* cleanupFile: fs.pathExists answers; a missing file ends the call.
pathExists(filePath) ==
  /\ removal[filePath] = "checking"
  /\ removal' = [removal EXCEPT ![filePath] = IF disk[filePath] THEN "removing" ELSE "done"]
  /\ UNCHANGED <<run, started, tempFiles, disk>>
  /\ UNCHANGED exceptRun

\* cleanupFile: fs.remove removes the file, or throws and the catch block
\* logs the error.
remove(filePath, removed) ==
  /\ removal[filePath] = "removing"
  /\ disk' = [disk EXCEPT ![filePath] = ~removed]
  /\ removal' = [removal EXCEPT ![filePath] = IF removed THEN "done" ELSE Logged(filePath)]
  /\ UNCHANGED <<run, started, tempFiles>>
  /\ UNCHANGED exceptRun

\* await cleanupFiles(...) is over: the run ends, with the error that left
\* the catch block if there is one, with the error of a rejected cleanupFile
\* if there were one.
runEnds ==
  /\ run.pc = "cleanup"
  /\ LET registered == {tempFiles[k] : k \in 1..Len(tempFiles)}
     IN /\ Rejected(removal, registered) \/ Fulfilled(removal, registered)
        /\ run' = [run EXCEPT !.pc = "ended",
                              !.ended = IF Rejected(removal, registered) THEN "cleanup"
                                        ELSE IF run.error = "none" THEN "returned"
                                        ELSE run.error]
  /\ UNCHANGED <<started, tempFiles, disk, removal>>
  /\ UNCHANGED exceptRun

\* The 30 minutes of handlerTimeout pass while the handler of the update is
\* still pending: the middleware promise given to the bot is rejected and
\* bot.catch logs the error and replies its one fixed notice. The handler
\* itself holds no reference to that deadline: it stays where it is,
\* awaiting the same call.
handlerTimeout ==
  /\ run.pc \in {"try", "catch", "finally", "cleanup"}
  /\ ~run.deadline
  /\ run' = [run EXCEPT !.deadline = TRUE, !.atDeadline = Len(started),
                        !.notice = "Error"]
  /\ UNCHANGED <<started, tempFiles, disk, removal>>
  /\ UNCHANGED exceptRun

RunNext ==
  \/ \E hasChat \in BOOLEAN : handleYouTubeUrl(hasChat)
  \/ \E raw \in RawTexts : stageResolves(raw)
  \/ stageRejects
  \/ transcriptionTimeout
  \/ transcribeSettles
  \/ \E sent \in BOOLEAN : reportError(sent)
  \/ cleanupFiles
  \/ \E filePath \in Artifacts : pathExists(filePath)
  \/ \E filePath \in Artifacts, removed \in BOOLEAN : remove(filePath, removed)
  \/ runEnds

\* -------------------------------------------- the chat-aggregation pipeline
\* processTranscription is called with the joined text and the session's
\* statusMessageId, which may be undefined: without a chat id it returns at
\* once, otherwise it enters the try block.
processTranscription(hasChat, statusMessageId) ==
  /\ chat.pc = "idle"
  /\ chat' = IF hasChat
             THEN [chat EXCEPT !.pc = "try", !.i = 1, !.statusMessageId = statusMessageId]
             ELSE [chat EXCEPT !.pc = "ended", !.ended = "returned"]
  /\ chatStarted' = IF hasChat THEN <<1>> ELSE <<>>
  /\ UNCHANGED chatDisk
  /\ UNCHANGED exceptChat

\* The awaited call of the try block resolves. safeEditMessage returns the
\* id of the message that now shows the status, the one edited or, when
\* there was none or the edit failed (edited = FALSE), a new one;
\* generateImage has written the image file; an empty article is thrown as
\* an error. After the last call the function returns.
chatStageResolves(edited, article) ==
  /\ chat.pc = "try"
  /\ LET stage == ChatStages[chat.i]
         r == [chat EXCEPT !.statusMessageId = @ \/ stage \in SafeEdits,
                           !.imagePath = @ \/ stage = "generateImage",
                           !.failed = IF stage \in SafeEdits /\ ~edited /\ chat.statusMessageId
                                      THEN @ \cup {"editMessageText"} ELSE @]
         j == ChatAfter(chat.i, r.imagePath)
     IN /\ ~edited => stage \in SafeEdits
        /\ article # <<"x">> => stage = "generateArticleStreaming"
        /\ chatDisk' = [chatDisk EXCEPT !["image"] = @ \/ stage = "generateImage"]
        /\ IF stage = "generateArticleStreaming" /\ IsBlank(article)
           THEN /\ chat' = [r EXCEPT !.pc = "catch", !.thrown = "EmptyArticle"]
                /\ chatStarted' = chatStarted
           ELSE IF j > Len(ChatStages)
           THEN /\ chat' = [r EXCEPT !.pc = "ended", !.ended = "returned"]
                /\ chatStarted' = chatStarted
           ELSE /\ chat' = [r EXCEPT !.i = j]
                /\ chatStarted' = Append(chatStarted, j)
  /\ UNCHANGED exceptChat

\* The awaited call of the try block rejects; for safeEditMessage that is
\* the reply that posts a new status message. The image generation, the
\* reply of a chunk, the photo and the removal of the status message only
\* log it; any other failure enters the catch block.
chatStageRejects ==
  /\ chat.pc = "try"
  /\ LET stage == ChatStages[chat.i]
         r == [chat EXCEPT !.failed = @ \cup {stage}]
         j == ChatAfter(chat.i, chat.imagePath)
     IN IF stage \in ChatSwallowed
        THEN IF j > Len(ChatStages)
             THEN /\ chat' = [r EXCEPT !.pc = "ended", !.ended = "returned"]
                  /\ chatStarted' = chatStarted
             ELSE /\ chat' = [r EXCEPT !.i = j]
                  /\ chatStarted' = Append(chatStarted, j)
        ELSE /\ chat' = [r EXCEPT !.pc = "catch", !.thrown = stage]
             /\ chatStarted' = chatStarted
  /\ UNCHANGED chatDisk
  /\ UNCHANGED exceptChat

\* The catch block: the error is shown by safeEditMessage and the keyboard
\* is replied; if that fails the error is replied as a new message, and if
\* that fails too its rejection leaves the function.
chatReportError(shown, replied) ==
  /\ chat.pc = "catch"
  /\ shown => replied
  /\ chat' = [chat EXCEPT !.pc = "ended",
                          !.reported = IF replied THEN chat.thrown ELSE "none",
                          !.ended = IF replied THEN "returned" ELSE "report"]
  /\ UNCHANGED <<chatDisk, chatStarted>>
  /\ UNCHANGED exceptChat

ChatNext ==
  \/ \E hasChat \in BOOLEAN, statusMessageId \in BOOLEAN :
       processTranscription(hasChat, statusMessageId)
  \/ \E edited \in BOOLEAN, article \in RawTexts : chatStageResolves(edited, article)
  \/ chatStageRejects
  \/ \E shown \in BOOLEAN, replied \in BOOLEAN : chatReportError(shown, replied)

\* ------------------------------------------------ the image generation
\* generateImage is called: without the token Hugging Face needs it throws
\* at once; otherwise the request of the first attempt is sent.
generateImage ==
  /\ img.pc = "idle"
  /\ img' = IF NeedsToken(provider, token)
            THEN [img EXCEPT !.pc = "thrown", !.result = MissingCredential]
            ELSE [img EXCEPT !.pc = "primary",
                             !.requests = Append(@, Request(provider, token, "primary"))]
  /\ UNCHANGED <<provider, token, imgFiles>>
  /\ UNCHANGED exceptImg

\* The request of the first attempt is answered with an image (error empty)
\* and saveImage is awaited, or it fails and the catch block starts the
\* second attempt.
primaryAnswered(error) ==
  /\ img.pc = "primary"
  /\ error \in RequestErrors(provider) \cup {NoImgError}
  /\ img' = IF error = NoImgError THEN [img EXCEPT !.pc = "primarySave"]
            ELSE Alternative(img, provider, token, error)
  /\ UNCHANGED <<provider, token, imgFiles>>
  /\ UNCHANGED exceptImg

\* saveImage of the first attempt: the file is written and its path
\* returned, or fs.writeFile throws and the catch block starts the second
\* attempt.
primarySaved(written) ==
  /\ img.pc = "primarySave"
  /\ imgFiles' = IF written THEN imgFiles \cup {"primary"} ELSE imgFiles
  /\ img' = IF written
            THEN [img EXCEPT !.pc = "returned",
                             !.result = [kind |-> "path", path |-> "primary", message |-> <<>>]]
            ELSE Alternative(img, provider, token, WriteError)
  /\ UNCHANGED <<provider, token>>
  /\ UNCHANGED exceptImg

\* generateImageAlternative: the request is answered with an image and
\* saveImage is awaited, or it fails and the wrapped error is thrown.
fallbackAnswered(error) ==
  /\ img.pc = "fallback"
  /\ error \in RequestErrors(provider) \cup {NoImgError}
  /\ img' = IF error = NoImgError THEN [img EXCEPT !.pc = "fallbackSave"]
            ELSE [img EXCEPT !.pc = "thrown", !.fallbackError = error,
                             !.result = GenerationFailed(img, error)]
  /\ UNCHANGED <<provider, token, imgFiles>>
  /\ UNCHANGED exceptImg

\* saveImage of generateImageAlternative
fallbackSaved(written) ==
  /\ img.pc = "fallbackSave"
  /\ imgFiles' = IF written THEN imgFiles \cup {"fallback"} ELSE imgFiles
  /\ img' = IF written
            THEN [img EXCEPT !.pc = "returned",
                             !.result = [kind |-> "path", path |-> "fallback", message |-> <<>>]]
            ELSE [img EXCEPT !.pc = "thrown", !.fallbackError = WriteError,
                             !.result = GenerationFailed(img, WriteError)]
  /\ UNCHANGED <<provider, token>>
  /\ UNCHANGED exceptImg

ImgNext ==
  \/ generateImage
  \/ \E error \in Answers : primaryAnswered(error)
  \/ \E written \in BOOLEAN : primarySaved(written)
  \/ \E error \in Answers : fallbackAnswered(error)
  \/ \E written \in BOOLEAN : fallbackSaved(written)

\* ------------------------------------------------ the transcription model
\* Transcriber.transcribe is called and calls initialize: with no instance
\* stored it calls pipeline() and awaits the new instance, otherwise it goes
\* on with the stored one.
transcribe(c) ==
  /\ callers[c].pc = "idle"
  /\ IF transcriber = None
     THEN /\ pipelines' = pipelines + 1
          /\ callers' = [callers EXCEPT ![c] = [@ EXCEPT !.pc = "initializing",
                                                        !.makes = pipelines + 1]]
     ELSE /\ pipelines' = pipelines
          /\ callers' = [callers EXCEPT ![c] = [@ EXCEPT !.pc = "loading",
                                                        !.uses = transcriber]]
  /\ UNCHANGED transcriber
  /\ UNCHANGED exceptTr

\* pipeline() resolves: the instance is stored and returned to the caller.
pipelineResolves(c) ==
  /\ callers[c].pc = "initializing"
  /\ transcriber' = callers[c].makes
  /\ callers' = [callers EXCEPT ![c] = [@ EXCEPT !.pc = "loading", !.uses = callers[c].makes]]
  /\ UNCHANGED pipelines
  /\ UNCHANGED exceptTr

\* pipeline() rejects: nothing is stored, transcribe throws.
pipelineRejects(c) ==
  /\ callers[c].pc = "initializing"
  /\ callers' = [callers EXCEPT ![c] = [@ EXCEPT !.pc = "thrown"]]
  /\ UNCHANGED <<transcriber, pipelines>>
  /\ UNCHANGED exceptTr

\* loadAudioFile and the call of the instance: the text is returned, or an
\* error is thrown.
transcribed(c, ok) ==
  /\ callers[c].pc = "loading"
  /\ callers' = [callers EXCEPT ![c] = [@ EXCEPT !.pc = IF ok THEN "returned" ELSE "thrown"]]
  /\ UNCHANGED <<transcriber, pipelines>>
  /\ UNCHANGED exceptTr

TrNext ==
  \/ \E c \in 1..NumCalls : transcribe(c)
  \/ \E c \in 1..NumCalls : pipelineResolves(c)
  \/ \E c \in 1..NumCalls : pipelineRejects(c)
  \/ \E c \in 1..NumCalls, ok \in BOOLEAN : transcribed(c, ok)

\* ---------------------------------- the post table and its publisher
\* SupabaseService.insertPost: a row with a new id is inserted with status
\* 'scheduled' and the publish_at given, in the past or not; an error of
\* the database leaves the table as it was and is thrown.
insertPost(p, due, ok) ==
  /\ postTable[p].status = "none"
  /\ writes' = writes \cup {[op |-> "insertPost", status |-> InsertedStatus]}
  /\ postTable' = IF ok /\ InsertedStatus \in CheckStatus
                  THEN [postTable EXCEPT ![p] = [status |-> InsertedStatus, due |-> due]]
                  ELSE postTable
  /\ UNCHANGED <<autopost, delivered>>
  /\ UNCHANGED exceptPost

\* the publish_at of a scheduled post passes
publishAtPasses(p) ==
  /\ postTable[p].status # "none"
  /\ ~postTable[p].due
  /\ postTable' = [postTable EXCEPT ![p].due = TRUE]
  /\ UNCHANGED <<autopost, delivered, writes>>
  /\ UNCHANGED exceptPost

\* SupabaseService.markPastPostsAsPublished: one update of the status of
\* the scheduled rows whose publish_at has passed; an error is thrown.
markPastPostsAsPublished(ok) ==
  /\ writes' = writes \cup {[op |-> "markPastPostsAsPublished", status |-> MarkedStatus]}
  /\ postTable' = Update(postTable, Due(postTable), MarkedStatus, ok)
  /\ UNCHANGED <<autopost, delivered>>
  /\ UNCHANGED exceptPost

\* The function is invoked: without its environment variables it answers
\* 500, otherwise it awaits the select of the due posts.
serve(v, configured) ==
  /\ autopost[v].pc = "idle"
  /\ autopost' = [autopost EXCEPT ![v] =
       IF configured THEN [@ EXCEPT !.pc = "select"]
       ELSE [@ EXCEPT !.pc = "done", !.response = [status |-> 500, body |-> "config"]]]
  /\ UNCHANGED <<postTable, delivered, writes>>
  /\ UNCHANGED exceptPost

\* The select answers: an error is answered 500, no post 200 with both
\* counters 0; otherwise the loop starts with the first post and awaits its
\* send.
selectResolves(v, ok) ==
  /\ autopost[v].pc = "select"
  /\ LET posts == Rows(Due(postTable))
     IN autopost' = [autopost EXCEPT ![v] =
          IF ~ok
          THEN [@ EXCEPT !.pc = "done", !.response = [status |-> 500, body |-> "select"]]
          ELSE IF Len(posts) = 0
          THEN [@ EXCEPT !.pc = "done", !.response = [status |-> 200, body |-> "nothing"]]
          ELSE [@ EXCEPT !.pc = "send", !.posts = posts, !.i = 1]]
  /\ UNCHANGED <<postTable, delivered, writes>>
  /\ UNCHANGED exceptPost

\* publishPostAndUpdateStatus: sendTelegramMessage or sendTelegramPhoto
\* returns. false: the post is counted as failed and the loop goes on; true:
\* the channel has the message and the update of the status is awaited.
sendResolves(v, sent) ==
  /\ autopost[v].pc = "send"
  /\ LET r == autopost[v]
         post == r.posts[r.i]
     IN /\ delivered' = [delivered EXCEPT ![post] = IF sent THEN @ + 1 ELSE @]
        /\ autopost' = [autopost EXCEPT ![v] =
             IF AfterSend(sent) = "update" THEN [r EXCEPT !.pc = "update"]
             ELSE NextPost([r EXCEPT !.failedCount = @ + 1])]
  /\ UNCHANGED <<postTable, writes>>
  /\ UNCHANGED exceptPost

\* publishPostAndUpdateStatus: the update of the status to STATUS_PUBLISHED
\* for the id of the post answers. An error counts the post as failed, no
\* error as published; the loop goes on.
updateResolves(v, ok) ==
  /\ autopost[v].pc = "update"
  /\ LET r == autopost[v]
         post == r.posts[r.i]
         updateError == UpdateError({post}, STATUS_PUBLISHED, ok)
     IN /\ writes' = writes \cup {[op |-> "publishPostAndUpdateStatus",
                                   status |-> STATUS_PUBLISHED]}
        /\ postTable' = Update(postTable, {post}, STATUS_PUBLISHED, ok)
        /\ autopost' = [autopost EXCEPT ![v] =
             IF updateError THEN NextPost([r EXCEPT !.failedCount = @ + 1])
             ELSE NextPost([r EXCEPT !.publishedCount = @ + 1])]
  /\ UNCHANGED delivered
  /\ UNCHANGED exceptPost

PostNext ==
  \/ \E p \in PostIds, due \in BOOLEAN, ok \in BOOLEAN : insertPost(p, due, ok)
  \/ \E p \in PostIds : publishAtPasses(p)
  \/ \E ok \in BOOLEAN : markPastPostsAsPublished(ok)
  \/ \E v \in Invocations, configured \in BOOLEAN : serve(v, configured)
  \/ \E v \in Invocations, ok \in BOOLEAN : selectResolves(v, ok)
  \/ \E v \in Invocations, sent \in BOOLEAN : sendResolves(v, sent)
  \/ \E v \in Invocations, ok \in BOOLEAN : updateResolves(v, ok)

\* ------------------------------------------------- the audio buffer
\* loadAudioFile normalizes audioData in place; loading the normalized
\* samples again runs the same normalization over them.
normalize ==
  /\ passes < 2
  /\ Len(audioData) > 0
  /\ audioData' = Normalize(audioData)
  /\ passes' = passes + 1
  /\ UNCHANGED samples
  /\ UNCHANGED exceptAudio

AudioNext == normalize

AcqNext ==
  \/ downloadAudio
  \/ getVideoInfo
  \/ awaitDelay
  \/ execAsync
  \/ \E o \in AudioOutcomes, m \in ExecErrors : audioCommandEnds(o, m)
  \/ \E o \in InfoOutcomes, m \in ExecErrors : infoCommandEnds(o, m)
  \/ allStrategiesFailed

SessNext ==
  \/ \E d \in TimeSteps : Advance(d)
  \/ \E k \in Keys : handleTranscriptionMessage(k)
  \/ \E t \in timers : autoFinish(t)
  \/ \E k \in Keys : handleFinishTranscription(k)
  \/ \E b \in finalizing : startProcessing(b)
  \/ \E k \in Keys : clearTranscriptionSession(k)
  \/ \E h \in handlers, ok \in BOOLEAN : confirmationSent(h, ok)
  \/ \E h \in handlers, ok \in BOOLEAN : statusSent(h, ok)

Next == SessNext

Spec == Init /\ [][Next]_vars

\* one call of the strategy runner, for every input
SpecAcq == AcqInit /\ [][AcqNext]_vars

\* one call of the text generation, for either endpoint
SpecGen == GenInit /\ [][GenNext]_vars

\* one run of the video pipeline
SpecRun == RunInit /\ [][RunNext]_vars

\* the calls of Transcriber.transcribe of one process
SpecTr == RunInit /\ [][TrNext]_vars

\* one call of the image generation, for either provider, with and without
\* the token
SpecImg == ImgInit /\ [][ImgNext]_vars

\* one run of the video pipeline and one of the chat-aggregation pipeline
SpecPipelines == RunInit /\ [][RunNext \/ ChatNext]_vars

\* the post table, the bot's SupabaseService and the scheduled publisher
SpecPublisher == RunInit /\ [][PostNext]_vars

\* a buffer of samples is given, nothing else runs
AudioInit ==
  /\ SessInit
  /\ urlValid = TRUE /\ hasCookiesFile = FALSE /\ tempDir = TRUE
  /\ AcqIdle
  /\ apiUrl = "http://localhost:11434"
  /\ GenIdle
  /\ RunIdle
  /\ ChatIdle
  /\ provider = "huggingface" /\ token = TRUE
  /\ ImgIdle
  /\ TrIdle
  /\ PostIdle
  /\ samples \in Buffers
  /\ audioData = samples
  /\ passes = 0

\* the peak normalization of loadAudioFile over every small buffer
SpecAudio == AudioInit /\ [][AudioNext]_vars

\* two chats
Chats == {1, 2}

\* empty Map, no timer, no handler, for two chats
PairInit ==
  /\ ticks = 0
  /\ arrivals = <<>>
  /\ created = 0
  /\ heap = <<>>
  /\ transcriptionSessions = [k \in Chats |-> None]
  /\ timers = {}
  /\ handlers = {}
  /\ finalizing = {}
  /\ generated = <<>>
  /\ age = <<>>
  /\ discarded = {}
  /\ noticeSent = {}
  /\ urlValid = TRUE /\ hasCookiesFile = FALSE /\ tempDir = TRUE
  /\ AcqIdle
  /\ apiUrl = "http://localhost:11434"
  /\ GenIdle
  /\ RunIdle
  /\ ChatIdle
  /\ provider = "huggingface" /\ token = TRUE
  /\ ImgIdle
  /\ TrIdle
  /\ PostIdle
  /\ AudioIdle

PairNext ==
  \/ ticks < PairTicks /\ Advance(AUTO_FINISH_TIMEOUT)
  \/ \E k \in Chats : handleTranscriptionMessage(k)
  \/ \E t \in timers : autoFinish(t)
  \/ \E k \in Chats : handleFinishTranscription(k)
  \/ \E b \in finalizing : startProcessing(b)
  \/ \E k \in Chats : clearTranscriptionSession(k)
  \/ \E h \in handlers, ok \in BOOLEAN : confirmationSent(h, ok)
  \/ \E h \in handlers, ok \in BOOLEAN : statusSent(h, ok)

\* the session aggregator serving two chats
SpecPair == PairInit /\ [][PairNext]_vars

\* half of the inactivity window: a clock step that lets a fragment arrive
\* while a timer is partly run down
HalfWindow == AUTO_FINISH_TIMEOUT \div 2

\* the session aggregator under a clock that also advances by half windows
SpecWindow == Init /\ [][SessNext \/ Advance(HalfWindow)]_vars

\* the session aggregator with the scheduling Node.js gives it: the delay of
\* a running timer runs out, a due timer callback is run by the event loop,
\* and the awaited edit of the status message settles
FairNext ==
  \/ windowElapses
  \/ Advance(MAX_SESSION_LIFETIME)
  \/ \E k \in Keys : Len(arrivals) < FairFrags /\ handleTranscriptionMessage(k)
  \/ \E t \in timers : autoFinish(t)
  \/ \E k \in Keys : handleFinishTranscription(k)
  \/ \E b \in finalizing : startProcessing(b)
  \/ \E k \in Keys : clearTranscriptionSession(k)
  \/ \E h \in handlers, ok \in BOOLEAN : confirmationSent(h, ok)
  \/ \E h \in handlers, ok \in BOOLEAN : statusSent(h, ok)

SpecFair ==
  /\ Init
  /\ [][FairNext]_vars
  /\ WF_vars(windowElapses)
  /\ WF_vars(\E t \in timers : autoFinish(t))
  /\ WF_vars(\E b \in finalizing : startProcessing(b))

\* the video pipeline run by the bot, whose handlerTimeout may pass at any
\* await of the handler
SpecDeadline == RunInit /\ [][RunNext \/ handlerTimeout]_vars

\* ================================================================ properties
\* ----------------------------------------------------- vocabulary of the claims
\* the elements of a sequence
Range(seq) == {seq[i] : i \in DOMAIN seq}

\* how often n occurs in a sequence
Occurrences(seq, n) == Cardinality({i \in DOMAIN seq : seq[i] = n})

\* what a call of processTranscription was made of, as the finalization captured it
Captured(c) ==
  [sid |-> c.sid, key |-> c.key, via |-> c.via, text |-> c.text, frags |-> c.frags]

\* the finalized batches: handed to processTranscription or about to be
Finalized == finalizing \cup {Captured(generated[i]) : i \in DOMAIN generated}

\* the number of finalized batches update n is part of
InBatches(n) ==
  Cardinality({i \in DOMAIN generated : n \in Range(generated[i].frags)})
    + Cardinality({b \in finalizing : n \in Range(b.frags)})

\* the number of times update n is held by a session of the Map
InLiveSessions(n) ==
  LET live == {k \in Keys : transcriptionSessions[k] # None} IN
  IF live = {} THEN 0
  ELSE LET RECURSIVE Sum(_)
           Sum(ks) ==
             IF ks = {} THEN 0
             ELSE LET k == CHOOSE x \in ks : TRUE
                  IN Occurrences(MessageIds(heap[transcriptionSessions[k]].messages), n)
                       + Sum(ks \ {k})
       IN Sum(live)

\* the number of times update n was dropped with its session
InDiscarded(n) == Cardinality({d \in discarded : d.id = n})

\* the updates n of chat k with lo <= n <= hi, in arrival order
RECURSIVE ArrivedBetween(_, _, _)
ArrivedBetween(k, lo, hi) ==
  IF lo > hi THEN <<>>
  ELSE (IF arrivals[lo] = k THEN <<lo>> ELSE <<>>) \o ArrivedBetween(k, lo + 1, hi)

\* the texts of the updates `ids`, each but the first after a blank line
RECURSIVE ArrivalText(_)
ArrivalText(ids) ==
  IF Len(ids) = 0 THEN ""
  ELSE IF Len(ids) = 1 THEN UpdateText(ids[1])
  ELSE ArrivalText(SubSeq(ids, 1, Len(ids) - 1)) \o "\n\n" \o UpdateText(ids[Len(ids)])

\* the sessions of chat k that can still act: in the Map, or with a pending timer
LiveSessions(k) ==
  {s \in DOMAIN heap :
     /\ heap[s].chatId = k
     /\ transcriptionSessions[k] = s \/ \E t \in timers : t.sid = s}

\* ------------------------------------------------------------------ claims
\* C1: the text of every finalized batch, whether the timer or the explicit
\* trigger finalized it, is made of the fragments that arrived for its chat
\* from its first to its last, each once, in arrival order, joined by "\n\n":
\* fragments "A", "B", "C" give "A\n\nB\n\nC".
JoinedInArrivalOrder ==
  \A b \in Finalized :
    /\ Len(b.frags) >= 1
    /\ b.frags = ArrivedBetween(b.key, b.frags[1], b.frags[Len(b.frags)])
    /\ b.text = ArrivalText(b.frags)

\* three fragments were handed to generation as one text
ThreeFragmentsJoined ==
  \E i \in DOMAIN generated :
    /\ generated[i].frags = <<1, 2, 3>>
    /\ generated[i].text = "A\n\nB\n\nC"

\* Every pending inactivity timer is the timer of the session the Map holds
\* for its chat: whatever removes or replaces a session clears its timer in
\* the same run, so the guard of autoFinish never meets a stale timer.
TimersBelongToMapSessions ==
  \A t \in timers : transcriptionSessions[heap[t.sid].chatId] = t.sid

\* C3 (as stated): every accepted fragment that was not cancelled is in
\* exactly one place, a finalized batch or the session of the Map.
EachFragmentInBatchOrSession ==
  \A n \in 1..Len(arrivals) :
    (~ \E d \in discarded : d.id = n /\ d.why = "cancelled")
      => InLiveSessions(n) + InBatches(n) = 1

\* C3 (amended): every accepted fragment is in exactly one place: one
\* finalized batch, the session of the Map, or the fragments dropped with a
\* session that was cancelled or had expired when the next fragment arrived.
EachFragmentInOnePlace ==
  \A n \in 1..Len(arrivals) :
    InLiveSessions(n) + InBatches(n) + InDiscarded(n) = 1

\* on one chat the timer finalized a batch, the explicit trigger another, and
\* a third session is collecting
AllTriggersInterleaved ==
  \E i, j \in DOMAIN generated :
    /\ generated[i].via = "timer"
    /\ generated[j].via = "explicit"
    /\ generated[i].key = generated[j].key
    /\ transcriptionSessions[generated[i].key] # None

\* C4: a chat has at most one session that can still act; once fragments have
\* arrived for a chat and none was finalized or dropped, the Map holds a
\* session with them; a session that was finalized or cancelled is not in
\* the Map.
AtMostOneLiveSession ==
  /\ \A k \in Keys : Cardinality(LiveSessions(k)) <= 1
  /\ \A k \in Keys :
       transcriptionSessions[k] # None =>
         /\ transcriptionSessions[k] \in DOMAIN heap
         /\ heap[transcriptionSessions[k]].chatId = k
         /\ Len(heap[transcriptionSessions[k]].messages) >= 1
  /\ \A k \in Keys :
       (/\ k \in Range(arrivals)
        /\ ~ \E b \in Finalized : b.key = k
        /\ ~ \E d \in discarded : d.key = k)
         => transcriptionSessions[k] # None
  /\ \A b \in Finalized : transcriptionSessions[b.key] # b.sid
  /\ \A d \in discarded : transcriptionSessions[d.key] # d.sid

\* a chat had a session finalized and a session cancelled, and has a third
SessionAfterFinalizeAndCancel ==
  \E b \in Finalized, d \in discarded :
    /\ d.why = "cancelled"
    /\ d.key = b.key
    /\ transcriptionSessions[b.key] # None

\* C5: a session the explicit trigger finalized has no pending timer, is not
\* in the Map, and makes exactly one batch.
ExplicitFinalizeHandsOnce ==
  \A b \in Finalized :
    b.via = "explicit" =>
      /\ ~ \E t \in timers : t.sid = b.sid
      /\ transcriptionSessions[b.key] # b.sid
      /\ Cardinality({i \in DOMAIN generated : generated[i].sid = b.sid})
           + Cardinality({f \in finalizing : f.sid = b.sid}) = 1

\* the explicit trigger handed two fragments over, and time has passed since
ExplicitBatchHanded ==
  \E i \in DOMAIN generated :
    /\ generated[i].via = "explicit"
    /\ Len(generated[i].frags) = 2
    /\ ticks >= 1

\* C6: a session the timer finalized is out of the Map from the moment its
\* batch is captured, before the batch is handed over; it takes no fragment
\* afterwards, and a session the Map holds for its chat is another object
\* with none of its fragments.
TimerFinalizeDetachesSession ==
  \A b \in Finalized :
    b.via = "timer" =>
      /\ transcriptionSessions[b.key] # b.sid
      /\ b.sid \in DOMAIN heap => MessageIds(heap[b.sid].messages) = b.frags
      /\ transcriptionSessions[b.key] # None =>
           Range(MessageIds(heap[transcriptionSessions[b.key]].messages))
             \cap Range(b.frags) = {}

\* a fragment arrived after the timer captured a batch and before the batch
\* was handed over
FragmentDuringTimerFinalize ==
  \E b \in finalizing :
    /\ b.via = "timer"
    /\ transcriptionSessions[b.key] # None

\* C7: a cancelled session has no pending timer and is not in the Map, and
\* none of its fragments is in a finalized batch.
CancelledNeverGenerated ==
  \A d \in discarded :
    d.why = "cancelled" =>
      /\ ~ \E t \in timers : t.sid = d.sid
      /\ transcriptionSessions[d.key] # d.sid
      /\ InBatches(d.id) = 0

\* a session was cancelled, and a later one of the chat was handed over
GeneratedAfterCancel ==
  \E d \in discarded, i \in DOMAIN generated :
    /\ d.why = "cancelled"
    /\ generated[i].key = d.key
    /\ generated[i].frags[1] > d.id

\* C8: an explicit finalize for a chat with no session in the Map, or one
\* without messages, sends the notice to the chat and changes neither the
\* Map, the timers, the sessions nor what is handed to generation.
FinishWithoutSessionIsNoOp ==
  [][\A k \in Keys :
       (/\ \/ transcriptionSessions[k] = None
            \/ Len(heap[transcriptionSessions[k]].messages) = 0
        /\ handleFinishTranscription(k))
         => /\ k \in noticeSent'
            /\ UNCHANGED <<transcriptionSessions, timers, heap, handlers,
                           finalizing, generated, discarded>>]_vars

\* the notice was sent while a later session was collecting
NoticeSentThenCollecting ==
  /\ noticeSent # {}
  /\ \E k \in noticeSent : transcriptionSessions[k] # None

\* The strategies of a call are started one at a time, each once, in the
\* order of the list, the next only after the one before it failed; a call
\* that returned started none after the one it returned from; getVideoInfo
\* returns what that one printed.
StrategiesOneByOneInOrder ==
  /\ Cardinality(running) <= 1
  /\ attempted = [j \in 1..Len(attempted) |-> j]
  /\ acq.pc \in {"exec", "returned"} => Len(attempted) = acq.i + 1
  /\ acq.pc \in {"loop", "try"} => Len(attempted) = acq.i
  /\ acq.pc = "thrown" /\ acq.result.kind # "InvalidUrl" => Len(attempted) = acq.n
  /\ acq.pc = "returned" => running = {}
  /\ acq.pc = "returned" /\ acq.op = "info" => acq.result.by = acq.i + 1

\* C10: no two strategies of a call run at the same time, and a call that
\* returns after the command of strategy K+1 produced its output returns that
\* output, with the strategies 1..K+1 started once each in list order and no
\* other.
FirstSuccessReturned ==
  /\ Cardinality(running) <= 1
  /\ (acq.pc = "returned" /\ acq.outcome \in {"exact", "other", "json"}) =>
       /\ attempted = [j \in 1..(acq.i + 1) |-> j]
       /\ running = {}
       /\ acq.result.by = acq.i + 1

\* C9: no session of the Map holds a fragment appended more than
\* MAX_SESSION_LIFETIME after the session was created.
LifetimeNeverExceeded ==
  \A k \in Keys :
    transcriptionSessions[k] # None =>
      age[transcriptionSessions[k]] - heap[transcriptionSessions[k]].idle
        <= MAX_SESSION_LIFETIME

\* ---------------------------------------------- claims on the strategy runner
\* C11: a call of getVideoInfo or downloadAudio that throws one of the two
\* errors of the end of the loop has started every strategy of its list, each
\* once and in order; while a strategy remains, a failed command leaves the
\* call in its loop.
FailsOnlyAfterEveryStrategy ==
  /\ (acq.pc = "thrown" /\ acq.result.kind \in {"ToolMissing", "Exhausted"}) =>
       /\ acq.n = Len(strategies(hasCookiesFile))
       /\ attempted = [j \in 1..acq.n |-> j]
       /\ acq.failures # {}
  /\ (acq.op # "none" /\ Len(attempted) < acq.n /\ acq.result.kind # "InvalidUrl") =>
       acq.pc \in {"loop", "try", "exec", "returned"}

\* both methods' cases are alike; the longest list (with cookies.txt) failed
\* strategy by strategy
EveryStrategyFailed ==
  /\ acq.pc = "thrown"
  /\ acq.result.kind = "Exhausted"
  /\ hasCookiesFile
  /\ Len(attempted) = 12

\* C12 (as stated): after every strategy failed the error is the "tool
\* missing" one exactly when every failure's message matches a not-found
\* pattern, and the "exhausted" one otherwise.
ToolMissingIffEveryFailureNotFound ==
  (acq.pc = "thrown" /\ acq.result.kind \in {"ToolMissing", "Exhausted"}) =>
    (acq.result.kind = "ToolMissing"
       <=> \A m \in acq.failures : LooksNotInstalled(m))

\* C13: when the command of a downloadAudio strategy is started, the temp
\* directory holds no file an earlier strategy of the call wrote.
NoStaleFileWhenStrategyStarts ==
  (acq.op = "audio" /\ acq.pc = "exec") =>
    \A f \in FileNames : files[f] = None

\* C14 (as stated): no wait precedes the first strategy, and the waits grow
\* exponentially: each is the one before it times a constant factor.
WaitsGrowExponentially ==
  /\ acq.pc = "exec" => Len(waits) = Len(attempted) - 1
  /\ \A j \in 2..(Len(waits) - 1) :
       waits[j] * waits[j] = waits[j - 1] * waits[j + 1]

\* C14 (amended): no wait precedes the first strategy, and the wait before
\* strategy s > 1 is 2000 ms times s - 1: it grows linearly.
WaitsGrowLinearly ==
  /\ acq.pc = "exec" => Len(waits) = Len(attempted) - 1
  /\ acq.pc \in {"loop", "returned", "thrown"} /\ attempted # <<>> =>
       Len(waits) = Len(attempted) - 1
  /\ \A j \in 1..Len(waits) : waits[j] = 2000 * j

\* the fourth strategy runs after waits of 2, 4 and 6 seconds
ThreeWaitsDone ==
  /\ acq.pc = "exec"
  /\ Len(attempted) = 4
  /\ waits = <<2000, 4000, 6000>>

\* ------------------------------------------- claims on the text generation
\* the kinds of failure the retry policy calls transient
TransientKinds == {"timeout", "header-timeout", "connection-refused"}

AllTransient == \A j \in 1..Len(errors) : errors[j].kind \in TransientKinds

\* the call failed after at least one generation request failed
FailedGenerating == gen.pc = "thrown" /\ errors # <<>>

\* C15 (as stated): when every attempt of the text generation fails with a
\* transient error, the backend has been called exactly 3 times and the call
\* fails with GenerationTimeout.
TransientExhaustionIsTimeout ==
  (FailedGenerating /\ AllTransient) =>
    /\ calls = <<1, 2, 3>>
    /\ gen.result.kind = "GenerationTimeout"

\* C15 (amended): the backend is never called more than 3 times; when every
\* attempt fails with a transient error it has been called exactly 3 times,
\* and the call fails with GenerationTimeout if the last failure was a
\* timeout or a header timeout, with BackendUnreachable if it was a refused
\* connection.
TransientExhaustionByLastError ==
  /\ Len(calls) <= 3
  /\ (FailedGenerating /\ AllTransient) =>
       /\ calls = <<1, 2, 3>>
       /\ Len(errors) = 3
       /\ gen.result.kind =
            IF errors[3].kind \in {"timeout", "header-timeout"}
            THEN "GenerationTimeout" ELSE "BackendUnreachable"

ThreeTimeouts ==
  /\ gen.pc = "thrown"
  /\ errors = <<BodyTimeout, ConnRefused, HeadersTimeout>>
  /\ calls = <<1, 2, 3>>
  /\ gen.result.kind = "GenerationTimeout"

\* C16: a failure that is not transient (model not found, unclassified) ends
\* the call in the step that catches it, with no further backend call,
\* whatever attempts remain; every failure that was followed by another
\* backend call was a timeout, a header timeout or a refused connection, and
\* such a failure before the last attempt does not end the call.
OnlyTransientRetried ==
  /\ Len(calls) <= Len(errors) + 1
  /\ \A j \in 1..Len(errors) :
       j < Len(calls) \/ gen.pc = "delay" => errors[j].kind \in TransientKinds
  /\ \A j \in 1..Len(errors) :
       errors[j].kind \notin TransientKinds =>
         /\ j = Len(errors)
         /\ gen.pc = "thrown"
         /\ Len(calls) = j
  /\ (FailedGenerating /\ Len(errors) < 3) =>
       errors[Len(errors)].kind \notin TransientKinds

AbortedWithAttemptsLeft ==
  /\ gen.pc = "thrown"
  /\ errors = <<BodyTimeout, ModelMissing>>
  /\ calls = <<1, 2>>
  /\ gen.result.kind = "ModelNotFound"

\* C17: when the preflight fails, the call fails with BackendUnreachable,
\* the message naming the configured endpoint, and no generation request has
\* been sent, no attempt started and no retry delay waited.
PreflightFailsFast ==
  (gen.pc \notin {"idle", "preflight"} /\ ~gen.listed) =>
    /\ gen.pc = "thrown"
    /\ gen.result.kind = "BackendUnreachable"
    /\ Includes(gen.result.message, <<apiUrl>>)
    /\ calls = <<>>
    /\ gen.attempt = 0
    /\ retryWaits = <<>>
    /\ errors = <<>>

PreflightFailed ==
  /\ gen.pc = "thrown"
  /\ ~gen.listed
  /\ apiUrl = "http://ollama:11434"
  /\ gen.result.message = <<"Cannot", "connect", "to", "Ollama", "at", "http://ollama:11434">>

\* C18: the k-th retry delay is min(1000 * 2^(k-1), 10000) ms, so each is
\* twice the one before and none is above 10000; a delay is waited only
\* after a transient failure of an attempt before the last, so a call that
\* failed waited one delay less than it made attempts.
RetryDelaysDoubleUnderCeiling ==
  /\ \A k \in 1..Len(retryWaits) :
       /\ retryWaits[k] = Min(1000 * Pow2(k - 1), 10000)
       /\ retryWaits[k] <= 10000
       /\ k > 1 => retryWaits[k] = 2 * retryWaits[k - 1]
  /\ gen.pc = "delay" =>
       /\ gen.attempt < 3
       /\ errors[Len(errors)].kind \in TransientKinds
       /\ Len(retryWaits) = Len(errors) - 1
  /\ gen.pc # "delay" => Len(retryWaits) =
       IF gen.pc = "thrown" /\ errors # <<>> THEN Len(errors) - 1 ELSE Len(errors)

TwoRetryDelays ==
  /\ gen.pc = "thrown"
  /\ retryWaits = <<1000, 2000>>
  /\ Len(errors) = 3

\* the text of a sequence of increments
RECURSIVE Flatten(_)
Flatten(texts) ==
  IF texts = <<>> THEN <<>> ELSE Head(texts) \o Flatten(Tail(texts))

\* C19: the sink has received exactly the increments the backend emitted, in
\* the order emitted; the accumulated text is the increments forwarded, and a
\* returned result is that text trimmed; once the call has returned or
\* failed the sink is not invoked again.
IncrementsForwardedInOrder ==
  /\ [](/\ sink = emitted
        /\ fullArticle = Flatten(sink)
        /\ gen.pc = "returned" => gen.result.text = Trim(Flatten(sink)))
  /\ [][gen.pc \in {"returned", "thrown"} => sink' = sink]_vars

StreamedAcrossRetry ==
  /\ gen.pc = "returned"
  /\ Len(calls) = 2
  /\ sink = <<<<" ">>, <<"x">>, <<"x">>>>
  /\ gen.result.text = <<"x", "x">>

\* ------------------------------------------- claims on the video pipeline
\* the artifacts registered during the run
Registered == {tempFiles[k] : k \in 1..Len(tempFiles)}

RunEnded == run.pc = "ended"

\* C20 (as stated): after a run has ended every registered artifact is
\* absent from the filesystem, also when the removal of one of them threw.
EveryRegisteredArtifactAbsent ==
  RunEnded => \A f \in Registered : ~disk[f]

\* C20 (amended): a run ends only after cleanupFile has finished for every
\* registered artifact, however the run went (success, a failed stage, a
\* failed error report); every registered artifact is then absent except one
\* whose own removal threw, whatever happened to the removal of the others;
\* and the run never ends with a cleanup error.
RegisteredArtifactsCleanedUp ==
  RunEnded =>
    /\ \A f \in Registered : removal[f] \in {"done", "failed"}
    /\ \A f \in Registered : removal[f] # "failed" => ~disk[f]
    /\ run.ended # "cleanup"
    /\ run.ended = "report" <=> run.error = "report"

CleanedUpAfterFailedReport ==
  /\ RunEnded
  /\ run.ended = "report"
  /\ tempFiles = <<"audio", "wav", "image">>
  /\ removal = [f \in Artifacts |-> IF f = "wav" THEN "failed" ELSE "done"]
  /\ disk = [f \in Artifacts |-> f = "wav"]

\* --------------------------------------------- claims on the two pipelines
ChatEnded == chat.pc = "ended"

\* C21: no artifact created by a pipeline run exists after the run has
\* ended, the video pipeline apart from an artifact whose removal threw, the
\* chat-aggregation pipeline without exception.
NoArtifactOutlivesItsRun ==
  /\ RunEnded => \A f \in Artifacts : disk[f] => removal[f] = "failed"
  /\ ChatEnded => \A f \in DOMAIN chatDisk : ~chatDisk[f]

\* the stage has been awaited in the run of the video pipeline
Started(stage) == \E k \in 1..Len(started) : Stages[started[k]] = stage

\* the stage has been awaited in the run of the chat-aggregation pipeline
ChatStarted(stage) == \E k \in 1..Len(chatStarted) : ChatStages[chatStarted[k]] = stage

\* C22: a failed image generation does not abort a run of either pipeline:
\* the stage after it is awaited, and a run in which nothing else failed
\* ends as a success, having delivered (and, for the chat pipeline,
\* persisted) the article, without sending a photo.
ImageFailureDoesNotAbort ==
  /\ "generateImage" \in run.failed =>
       /\ Started("editSending")
       /\ run.thrown # "generateImage"
  /\ (RunEnded /\ run.failed = {"generateImage"}) =>
       /\ run.thrown = "none" /\ run.ended = "returned"
       /\ Started("replyChunk") /\ Started("replyDone")
       /\ ~Started("replyWithPhoto")
       /\ "image" \notin Registered
  /\ "generateImage" \in chat.failed =>
       /\ ChatStarted("safeEditSaving")
       /\ chat.thrown # "generateImage"
  /\ (ChatEnded /\ chat.failed = {"generateImage"}) =>
       /\ chat.thrown = "none" /\ chat.ended = "returned"
       /\ ChatStarted("saveArticle") /\ ChatStarted("replyChunk")
       /\ ChatStarted("replySaved")
       /\ ~ChatStarted("replyWithPhoto")

BothRunsWithoutImage ==
  /\ RunEnded /\ run.failed = {"generateImage"} /\ run.ended = "returned"
  /\ ChatEnded /\ chat.failed = {"generateImage"} /\ chat.ended = "returned"

ProviderUnusable ==
  \/ provider = "huggingface" /\ ~token
  \/ img.primaryError \in {Unauthorized, FetchError}

StatusStages ==
  {"reply", "editDownloading", "editConverting", "editTranscribing", "editGenerating",
   "editImage", "editSending", "deleteMessage"}

\* C26: the failure of an operation on the status message never takes a run
\* of either pipeline into its catch block.
StatusFailureDoesNotAbort ==
  /\ run.thrown \notin StatusStages
  /\ chat.thrown \notin SafeEdits \cup {"deleteMessage"}

\* ---------------------------------------- claims on the transcription model
\* C27: under any interleaving of the calls of transcribe the model is
\* made at most once, and all calls that have an instance use the same one.
InitializedAtMostOnce ==
  /\ pipelines <= 1
  /\ \A c, d \in 1..NumCalls :
       (callers[c].uses # None /\ callers[d].uses # None) =>
         callers[c].uses = callers[d].uses

\* ------------------------------------------- claims on the video pipeline
\* the stages after the transcription
LaterStages ==
  {"editGenerating", "generateArticleStreaming", "editImage", "generateImage",
   "editSending", "replyChunk", "replyChunkPlain", "replyWithPhoto", "deleteMessage",
   "replyDone"}

\* C28: once the 30 minute timer has fired with the transcription pending,
\* the run is in or past its catch block with the timeout error, and no
\* stage after the transcription is ever awaited, whether or not the
\* transcription settles afterwards.
TimeoutAbandonsTranscription ==
  run.timedOut =>
    /\ run.pc \in {"catch", "finally", "cleanup", "ended"}
    /\ run.thrown = "TranscriptionTimeout"
    /\ Stages[started[Len(started)]] = "transcribe"
    /\ \A stage \in LaterStages : ~Started(stage)
    /\ run.transcription = <<>>

SettledAfterTimeout ==
  /\ RunEnded
  /\ run.timedOut
  /\ ~run.transcribing
  /\ run.reported = "TranscriptionTimeout"

\* C29: a transcription that is empty or only white space enters the catch
\* block with the empty-transcription error, and the text generation is
\* never awaited with it: whenever the text generation has been awaited the
\* transcription has text.
EmptyTranscriptionAborts ==
  /\ (Started("transcribe") /\ ~run.transcribing /\ ~run.timedOut
        /\ "transcribe" \notin run.failed /\ Trim(run.raw) = <<>>) =>
       /\ run.thrown = "EmptyTranscription"
       /\ run.pc \in {"catch", "finally", "cleanup", "ended"}
       /\ \A stage \in LaterStages : ~Started(stage)
  /\ Started("generateArticleStreaming") =>
       /\ run.transcription # <<>>
       /\ Trim(run.transcription) # <<>>

BlankTranscriptionReported ==
  /\ RunEnded
  /\ run.raw = <<" ">>
  /\ run.reported = "EmptyTranscription"
  /\ ~Started("generateArticleStreaming")

\* the stages of the video pipeline that do the work, in the order of the
\* spec: acquisition, normalization, transcription, text generation, image
\* generation, delivery
WorkStages ==
  <<"getVideoInfo", "downloadAudio", "extractAudio", "transcribe",
    "generateArticleStreaming", "generateImage", "replyChunk">>

\* the run has left its try block through the catch block
Aborted == run.pc \in {"catch", "finally", "cleanup", "ended"} /\ run.thrown # "none"

\* C30: the stages are awaited in the order of the code, one after the
\* other, so a work stage is awaited only after every earlier work stage
\* has been awaited and, image generation apart, has not failed; a failure
\* of a work stage other than image generation is the last stage awaited:
\* the run enters its catch block with that failure, and when the catch
\* block is left the failure has been sent to the chat unless that send
\* itself was rejected.
StagesInOrderAbortOnFailure ==
  /\ \A k \in 1..Len(started) :
       IF k = 1 THEN started[k] = 1
       ELSE /\ started[k] > started[k - 1]
            /\ \A j \in (started[k - 1] + 1)..(started[k] - 1) :
                 Stages[j] \in {"replyChunkPlain", "replyWithPhoto"}
  /\ \A a, b \in 1..Len(WorkStages) :
       (a < b /\ Started(WorkStages[b])) =>
         /\ Started(WorkStages[a])
         /\ WorkStages[a] \in run.failed => WorkStages[a] = "generateImage"
  /\ \A a \in 1..5 :
       WorkStages[a] \in run.failed =>
         /\ Aborted
         /\ run.thrown = WorkStages[a]
         /\ Stages[started[Len(started)]] = WorkStages[a]
  /\ (Aborted /\ run.pc # "catch") =>
       \/ run.reported = run.thrown
       \/ run.reported = "none" /\ run.error = "report"

ConversionFailureReported ==
  /\ RunEnded
  /\ run.failed = {"extractAudio"}
  /\ started = <<1, 2, 3, 4, 5, 6>>
  /\ run.reported = "extractAudio"
  /\ run.ended = "returned"

\* ---------------------------------------------------------------- C31
\* C31 (as stated): once the outer deadline around the whole pipeline has
\* elapsed while the run was in progress, the run is abandoned, no stage is
\* started after the deadline, and what is reported is PipelineTimeout.
DeadlineAbandonsRun ==
  run.deadline =>
    /\ Len(started) = run.atDeadline
    /\ run.notice = "PipelineTimeout"

\* the first half of it alone: no stage of the run is started after the
\* outer deadline elapsed
NoStageAfterDeadline == run.deadline => Len(started) = run.atDeadline

\* a run that went on after the deadline: it started further stages and
\* ended by returning normally
RunCompletedAfterDeadline ==
  /\ run.deadline
  /\ run.pc = "ended"
  /\ run.ended = "returned"
  /\ Len(started) > run.atDeadline
  /\ run.notice = "Error"

\* ---------------------------------------------------------------- C32
\* the pending inactivity timers of session object s
TimersOf(s) == {t \in timers : t.sid = s}

\* the batches a step finalizes on behalf of a timer
TimerFinalizedNow == {b \in Finalized' \ Finalized : b.via = "timer"}

\* C32: every fragment arrival cancels the inactivity timer of its session
\* and arms a new one, so the session the Map holds for a chat has at most
\* one pending timer, the one armed by its latest fragment; and a timer
\* finalizes a session only when no fragment has arrived for that chat
\* during the AUTO_FINISH_TIMEOUT (5 s) before.
OneTimerRestartedByEachFragment ==
  /\ [](\A k \in Keys :
          LET s == transcriptionSessions[k] IN
          s # None =>
            /\ Cardinality(TimersOf(s)) <= 1
            /\ \A t \in TimersOf(s) :
                 /\ Len(heap[s].messages) >= 1
                 /\ t.id = heap[s].messages[Len(heap[s].messages)].id
                 /\ t.id = heap[s].timeoutId)
  /\ [][\A b \in TimerFinalizedNow :
          /\ heap[b.sid].idle >= AUTO_FINISH_TIMEOUT
          /\ b.frags = MessageIds(heap[b.sid].messages)]_vars

\* a timer finalized a session whose second fragment arrived in the middle
\* of the window of the first: the session was older than its quiet time by
\* less than a window when its restarted timer captured both fragments
FinalizedByRestartedTimer ==
  \E b \in finalizing :
    /\ b.via = "timer"
    /\ Len(b.frags) >= 2
    /\ heap[b.sid].idle = AUTO_FINISH_TIMEOUT
    /\ age[b.sid] = AUTO_FINISH_TIMEOUT + HalfWindow

\* ---------------------------------------------------------------- C33
\* fragment n is in the text of a call of processTranscription
HandedToGeneration(n) ==
  \E i \in DOMAIN generated : n \in Range(generated[i].frags)

\* fragment n was dropped with its session for the reason `why`
DiscardedBy(n, why) == \E d \in discarded : d.id = n /\ d.why = why

\* every session the Map holds has a pending inactivity timer
EverySessionHasTimer ==
  \A k \in Keys :
    transcriptionSessions[k] # None => TimersOf(transcriptionSessions[k]) # {}

\* no session stays in the Map forever
NoSessionCollectsForever ==
  \A k \in Keys : (transcriptionSessions[k] # None) ~> (transcriptionSessions[k] = None)

\* C33 (as stated): every session of the Map has a pending inactivity timer;
\* with timers that fire once due, every accepted fragment is eventually
\* handed to generation or discarded by an explicit cancel, and no session
\* stays in the Map forever.
EveryFragmentGeneratedOrCancelled ==
  /\ []EverySessionHasTimer
  /\ NoSessionCollectsForever
  /\ \A n \in 1..FairFrags :
       (Len(arrivals) >= n) ~> (HandedToGeneration(n) \/ DiscardedBy(n, "cancelled"))

\* C33 (amended): every session of the Map has a pending inactivity timer;
\* with timers that fire once due, every accepted fragment is eventually
\* handed to generation, discarded by an explicit cancel, or discarded with
\* its expired session when the next fragment replaced it, and no session
\* stays in the Map forever.
EveryFragmentGeneratedOrDiscarded ==
  /\ []EverySessionHasTimer
  /\ NoSessionCollectsForever
  /\ \A n \in 1..FairFrags :
       (Len(arrivals) >= n) ~>
         (HandedToGeneration(n) \/ DiscardedBy(n, "cancelled")
            \/ DiscardedBy(n, "expired"))

\* both ends happened: the first fragment was dropped with its expired
\* session when the second arrived, the second was handed to generation by
\* its timer, and no session is left
ExpiredThenGeneratedByTimer ==
  /\ DiscardedBy(1, "expired")
  /\ \E i \in DOMAIN generated : generated[i].frags = <<2>> /\ generated[i].via = "timer"
  /\ \A k \in Keys : transcriptionSessions[k] = None

\* ---------------------------------------------------------------- C34
\* what the Map holds for chat k: the session object, its fragments in
\* order, its status-message reference, its timer
SessionOf(k) ==
  LET s == transcriptionSessions[k] IN
  IF s = None THEN <<None>>
  ELSE <<s, heap[s].messages, heap[s].statusMessageId, heap[s].timeoutId,
         {[id |-> t.id, sid |-> t.sid] : t \in TimersOf(s)}>>

\* a step taken on behalf of chat k: a fragment arrives, its timer fires,
\* the explicit finalize or the cancel is called, or one of its handlers or
\* finalizations resumes
StepFor(k) ==
  \/ handleTranscriptionMessage(k)
  \/ \E t \in timers : heap[t.sid].chatId = k /\ autoFinish(t)
  \/ handleFinishTranscription(k)
  \/ clearTranscriptionSession(k)
  \/ \E b \in finalizing : b.key = k /\ startProcessing(b)
  \/ \E h \in handlers, ok \in BOOLEAN :
       heap[h.sid].chatId = k /\ (confirmationSent(h, ok) \/ statusSent(h, ok))

\* C34: sessions are independent across chats: a fragment arrival, a timer
\* fire, an explicit finalize or a cancel for chat k1 (and every later step
\* of those handlers) leaves the session of every other chat k2 as it was:
\* same object, same fragments in the same order, same timer, same
\* status-message reference, and no batch or discarded fragment of k2 appears.
SessionsIndependentAcrossKeys ==
  [][\A k1 \in Chats : StepFor(k1) =>
        \A k2 \in Chats \ {k1} :
          /\ SessionOf(k2)' = SessionOf(k2)
          /\ {b \in Finalized' : b.key = k2} = {b \in Finalized : b.key = k2}
          /\ {d \in discarded' : d.key = k2} = {d \in discarded : d.key = k2}]_vars

\* chat 2 collects two fragments, in order, while chat 1 had a fragment
\* between them, was finalized by its timer, and chat 2's timer is pending
OtherChatFinalizedMeanwhile ==
  /\ transcriptionSessions[2] # None
  /\ MessageIds(heap[transcriptionSessions[2]].messages) = <<1, 3>>
  /\ TimersOf(transcriptionSessions[2]) # {}
  /\ transcriptionSessions[1] = None
  /\ \E i \in DOMAIN generated : generated[i].key = 1 /\ generated[i].frags = <<2>>
                                  /\ generated[i].via = "timer"

\* ---------------------------------------------------------------- C35
\* handler h resumes from its confirmation and posts a new status message
PostsStatus(h) ==
  /\ h.pc = "confirm"
  /\ heap[h.sid].statusMessageId = None
  /\ confirmationSent(h, TRUE)

\* the post of handler h succeeded: a status message now exists
StatusPosted(h) == h.pc = "post" /\ statusSent(h, TRUE)

\* C35 (as stated): a session has a single status message: whenever a post
\* of a status message succeeds, the session had none before, and no status
\* message is posted for a session that was already finalized or cancelled
\* (that the Map no longer holds).
SingleStatusMessage ==
  [][\A h \in handlers :
       /\ StatusPosted(h) => heap[h.sid].statusMessageId = None
       /\ PostsStatus(h) => transcriptionSessions[heap[h.sid].chatId] = h.sid]_vars

\* the first half alone: a post succeeds only for a session without a
\* status message
OnePostPerSession ==
  [][\A h \in handlers :
       StatusPosted(h) => heap[h.sid].statusMessageId = None]_vars

\* the second half alone: no status message is posted for a session the Map
\* no longer holds
NoPostAfterFinalize ==
  [][\A h \in handlers :
       PostsStatus(h) => transcriptionSessions[heap[h.sid].chatId] = h.sid]_vars

\* ---------------------------------------------------------------- C36
\* the increments read from the stream of the attempt in progress
IncrementsOfAttempt == SubSeq(emitted, gen.since + 1, Len(emitted))

\* C36 (as stated): when the generation returns after a retry, the article
\* is the trimmed concatenation of the increments of the attempt that
\* succeeded, and of no earlier attempt.
ReturnsSuccessfulAttemptOnly ==
  (gen.pc = "returned" /\ Len(calls) >= 2) =>
    gen.result.text = Trim(Flatten(IncrementsOfAttempt))

\* a first attempt that failed after an increment "x", a second that
\* streamed "x" and ended: the article returned is "xx"
ReturnedWithFailedAttemptsText ==
  /\ gen.pc = "returned"
  /\ Len(calls) = 2
  /\ emitted = <<<<"x">>, <<"x">>>>
  /\ IncrementsOfAttempt = <<<<"x">>>>
  /\ gen.result.text = <<"x", "x">>

\* ---------------------------------------------------------------- C37
\* the post invocation v of the publisher is working on
Current(v) == autopost[v].posts[autopost[v].i]

\* C37: in the scheduled publisher the status of a post goes from scheduled
\* to published only in the update that follows a successful send of that
\* post by the same invocation; a send that fails leaves the table as it
\* was and counts the post as failed; every post of the loop is counted
\* once, so a response with counters has publishedCount + failedCount equal
\* to the number of posts selected.
PublishedOnlyAfterSend ==
  /\ [](\A p \in PostIds : postTable[p].status = "published" => delivered[p] >= 1)
  /\ [](\A v \in Invocations :
          LET r == autopost[v] IN
          /\ r.pc \in {"send", "update"} =>
               r.publishedCount + r.failedCount = r.i - 1
          /\ r.pc = "update" => delivered[Current(v)] >= 1
          /\ (r.pc = "done" /\ r.response.status = 200) =>
               r.publishedCount + r.failedCount = Len(r.posts))
  /\ [][\A p \in PostIds :
          (postTable[p].status = "scheduled" /\ postTable'[p].status = "published") =>
            \E v \in Invocations :
              /\ autopost[v].pc = "update"
              /\ Current(v) = p
              /\ autopost'[v].publishedCount = autopost[v].publishedCount + 1]_vars
  /\ [][\A v \in Invocations :
          (autopost[v].pc = "send" /\ sendResolves(v, FALSE)) =>
            /\ postTable' = postTable
            /\ autopost'[v].failedCount = autopost[v].failedCount + 1
            /\ autopost'[v].publishedCount = autopost[v].publishedCount]_vars

\* an invocation selected two due posts: the send of the first failed and
\* left it scheduled, the second was sent and is published; the response
\* counts one of each
OnePublishedOneFailed ==
  \E v \in Invocations :
    /\ autopost[v].pc = "done"
    /\ autopost[v].posts = <<1, 2>>
    /\ autopost[v].publishedCount = 1
    /\ autopost[v].failedCount = 1
    /\ postTable[1].status = "scheduled" /\ delivered[1] = 0
    /\ postTable[2].status = "published" /\ delivered[2] = 1

\* ---------------------------------------------------------------- C38
\* C38 (as stated): whatever the invocations of the scheduled publisher,
\* overlapping or not, and whether or not an update of the status fails,
\* the channel receives each post at most once.
EachPostSentAtMostOnce == \A p \in PostIds : delivered[p] <= 1

\* two invocations one after the other: the first sent the post and its
\* update of the status failed, the second selected the post again and sent
\* it a second time
SentAgainAfterFailedUpdate ==
  /\ delivered[1] = 2
  /\ autopost[1].pc = "done" /\ autopost[1].failedCount = 1
  /\ autopost[2].pc = "done" /\ autopost[2].publishedCount = 1
  /\ postTable[1].status = "published"

\* two overlapping invocations, neither having updated a status yet, have
\* both sent the same post
SentTwiceByOverlappingInvocations ==
  /\ delivered[1] = 2
  /\ autopost[1].pc = "update" /\ Current(1) = 1
  /\ autopost[2].pc = "update" /\ Current(2) = 1

\* ---------------------------------------------------------------- C39
\* C39 (as stated): every status value an operation sends to the table post
\* (insertPost, markPastPostsAsPublished, the scheduled publisher) is one the
\* CHECK constraint of the table allows, 'scheduled' or 'published'.
EveryWrittenStatusAllowed == \A w \in writes : w.status \in CheckStatus

\* markPastPostsAsPublished was called while a scheduled post was due: the
\* status it sent is not allowed, and the post is still scheduled
MarkedStatusRejected ==
  /\ \E w \in writes : w.op = "markPastPostsAsPublished" /\ w.status \notin CheckStatus
  /\ \E p \in PostIds : postTable[p].status = "scheduled" /\ postTable[p].due
  /\ \A v \in Invocations : autopost[v].pc = "idle"

\* ---------------------------------------------------------------- C40
\* the largest absolute value of a buffer
Loudest(buffer) ==
  CHOOSE m \in {Abs(buffer[i]) : i \in DOMAIN buffer} :
    \A i \in DOMAIN buffer : Abs(buffer[i]) <= m

\* C40: the peak normalization is idempotent: a buffer whose peak absolute
\* value is at most 1 is left as it was; a buffer with peak P > 1 has every
\* sample replaced by its quotient by P (the nearest representable value,
\* with the sample's sign) and its peak becomes exactly 1; normalizing the
\* result again changes nothing.
PeakNormalizationIdempotent ==
  /\ [](passes >= 1 =>
          LET P == Loudest(samples) IN
          /\ Len(audioData) = Len(samples)
          /\ P <= One => audioData = samples
          /\ P > One =>
               /\ Loudest(audioData) = One
               /\ \A i \in DOMAIN samples :
                    /\ 2 * Abs(audioData[i] * P - samples[i] * One) <= P
                    /\ audioData[i] * samples[i] >= 0)
  /\ [][passes >= 1 => audioData' = audioData]_vars

\* a buffer with a negative peak above 1, a smaller positive sample and a
\* zero was normalized twice: the peak is -1, the smaller sample is scaled
NormalizedTwice ==
  /\ passes = 2
  /\ samples = <<-8, 3, 0>>
  /\ audioData = <<-4, 2, 0>>

\* a buffer within [-1, 1] was normalized and is as it was
QuietBufferKept ==
  /\ passes = 2
  /\ samples = <<-4, 3, 1>>
  /\ audioData = samples
====
